---- MODULE Spec2Model ----
(***************************************************************************)
(* Model of sefaria_sdk.text_processing.TextProcessor (extract_verses,     *)
(* format_hebrew, get_parallel_texts, clean_text), of                      *)
(* sefaria_sdk.client.SefariaClient and of the async client of the async   *)
(* tests.                                                                  *)
(*                                                                         *)
(* A Python string is a sequence of Unicode code points (integers).  A     *)
(* Python object is a record [t, s, n, l, d]: t is the type tag, s the     *)
(* characters of a str, n the value of an int, l the items of a list or    *)
(* tuple, d the items of a dict as a sequence of <<key, value>> pairs in   *)
(* insertion order.  A call ends in an outcome [raised, exc, val].         *)
(***************************************************************************)
EXTENDS Integers, Sequences, FiniteSets, TLC

VARIABLES fn, args, pc, result, prev, hops, threads, frames, client, wire, aio

vars == <<fn, args, pc, result, prev, hops, threads, frames, client, wire, aio>>

(***************************************************************************)
(* Bounds of the explored inputs.                                          *)
(***************************************************************************)
MaxStrLen == 4

MaxVerses == 3

MaxChain == 1

NumThreads == 2

\* The most attempts of one request the service answers with 503.
MaxBusy == 5

\* The most calls in the body of an `async with` block, the most calls
\* outside the block, and the most references of one fetch_multiple_texts
\* call.
MaxRequests == 2

(***************************************************************************)
(* Python objects.                                                         *)
(***************************************************************************)
PyNone == [t |-> "none", s |-> <<>>, n |-> 0, l |-> <<>>, d |-> <<>>]

PyStr(chars) == [t |-> "str", s |-> chars, n |-> 0, l |-> <<>>, d |-> <<>>]

PyInt(i) == [t |-> "int", s |-> <<>>, n |-> i, l |-> <<>>, d |-> <<>>]

PyList(items) == [t |-> "list", s |-> <<>>, n |-> 0, l |-> items, d |-> <<>>]

PyTuple(items) == [t |-> "tuple", s |-> <<>>, n |-> 0, l |-> items, d |-> <<>>]

PyDict(items) == [t |-> "dict", s |-> <<>>, n |-> 0, l |-> <<>>, d |-> items]

\* A bytes object: s holds the bytes.
PyBytes(bytes) == [t |-> "bytes", s |-> bytes, n |-> 0, l |-> <<>>, d |-> <<>>]

Ok(v) == [raised |-> FALSE, exc |-> "", val |-> v]

Raise(e) == [raised |-> TRUE, exc |-> e, val |-> PyNone]

\* bool(v): the truth value Python gives an object in `if v` / `not v`.
Truthy(v) ==
    CASE v.t = "none" -> FALSE
      [] v.t = "str" -> v.s # <<>>
      [] v.t = "int" -> v.n # 0
      [] v.t = "list" -> v.l # <<>>
      [] v.t = "tuple" -> v.l # <<>>
      [] v.t = "dict" -> v.d # <<>>

\* `key in mapping` and `mapping[key]` for a dict.
HasKey(v, key) == \E i \in 1..Len(v.d) : v.d[i][1] = key

GetKey(v, key) == v.d[CHOOSE i \in 1..Len(v.d) : v.d[i][1] = key][2]

\* value[key] for a str key: the value under the key of a dict, KeyError
\* without the key; str, list and tuple take integer indices only and None
\* and int are not subscriptable (TypeError).
Subscript(value, key) ==
    IF value.t # "dict" THEN Raise("TypeError")
    ELSE IF HasKey(value, key) THEN Ok(GetKey(value, key))
    ELSE Raise("KeyError")

\* value[0]: the first item of a list or tuple, the first character of a
\* str, IndexError when it is empty; a dict has no key 0; None and int are
\* not subscriptable.
SubscriptFirst(value) ==
    CASE value.t \in {"list", "tuple"} ->
            IF value.l = <<>> THEN Raise("IndexError") ELSE Ok(value.l[1])
      [] value.t = "str" ->
            IF value.s = <<>> THEN Raise("IndexError") ELSE Ok(PyStr(<<value.s[1]>>))
      [] value.t = "dict" -> Raise("KeyError")
      [] value.t \in {"none", "int"} -> Raise("TypeError")

\* The characters of the dict keys the documents use.
KeyChars(key) ==
    CASE key = "text" -> <<116, 101, 120, 116>>
      [] key = "he" -> <<104, 101>>
      [] key = "versions" -> <<118, 101, 114, 115, 105, 111, 110, 115>>
      [] key = "language" -> <<108, 97, 110, 103, 117, 97, 103, 101>>

(***************************************************************************)
(* Characters.                                                             *)
(***************************************************************************)
\* U+200F, the right-to-left mark (line 75).
RLM == 8207

\* " ", the replacement of re.sub(r"\s+", " ", text).
SPACE == 32

\* str.isspace() and the regex class \s on str patterns: the same set.
IsSpace(c) ==
    c \in ({9, 10, 11, 12, 13, 28, 29, 30, 31, 32, 133, 160, 5760}
           \cup (8192..8202) \cup {8232, 8233, 8239, 8287, 12288})

\* The regex class [.,;:!?].
IsPunct(c) == c \in {46, 44, 59, 58, 33, 63}

\* The regex class [\n\r].
IsLineBreak_NewlineOnly(c) == c = 10

IsLineBreak(c) == c \in {10, 13}

(***************************************************************************)
(* str methods and str().                                                  *)
(***************************************************************************)
RECURSIVE LStrip(_)
LStrip(s) ==
    IF s # <<>> /\ IsSpace(Head(s)) THEN LStrip(Tail(s)) ELSE s

RECURSIVE RStrip(_)
RStrip(s) ==
    IF s # <<>> /\ IsSpace(s[Len(s)]) THEN RStrip(SubSeq(s, 1, Len(s) - 1))
    ELSE s

Strip_MarkerToo(s) ==
    LET solid == {i \in 1..Len(s) : ~IsSpace(s[i]) /\ s[i] # RLM}
    IN IF solid = {} THEN <<>>
       ELSE SubSeq(s, CHOOSE i \in solid : \A j \in solid : i <= j,
                      CHOOSE i \in solid : \A j \in solid : i >= j)

\* str.strip()
Strip(s) == RStrip(LStrip(s))

\* str.startswith(prefix)
StartsWith(s, prefix) ==
    Len(s) >= Len(prefix) /\ SubSeq(s, 1, Len(prefix)) = prefix

RECURSIVE Digits(_)
Digits(i) ==
    IF i < 10 THEN <<48 + i>> ELSE Append(Digits(i \div 10), 48 + (i % 10))

\* str(int): decimal digits, "-" in front of a negative number.
IntToStr(i) == IF i < 0 THEN <<45>> \o Digits(0 - i) ELSE Digits(i)

\* str(v) for the scalars a verse can be: str, int, None.
ToStr(v) ==
    CASE v.t = "str" -> v.s
      [] v.t = "int" -> IntToStr(v.n)
      [] v.t = "none" -> <<78, 111, 110, 101>>

(***************************************************************************)
(* format_hebrew                                                           *)
(***************************************************************************)
\* Lines 74-76: the marker is put in front unless the text starts with it.
AddMarker_Always(s) == <<RLM>> \o s

AddMarker_IfAbsentAnywhere(s) ==
    IF \E i \in 1..Len(s) : s[i] = RLM THEN s ELSE <<RLM>> \o s

AddMarker(s) == IF ~StartsWith(s, <<RLM>>) THEN <<RLM>> \o s ELSE s

format_hebrew(text) ==
    IF ~Truthy(text) THEN Ok(PyStr(<<>>))
    ELSE IF text.t # "str" THEN Raise("AttributeError")
    ELSE Ok(PyStr(Strip(AddMarker(text.s))))

(***************************************************************************)
(* clean_text                                                              *)
(***************************************************************************)
\* End of the run of whitespace that starts at index i (i itself if none).
RECURSIVE SkipSpace(_, _)
SkipSpace(s, i) ==
    IF i <= Len(s) /\ IsSpace(s[i]) THEN SkipSpace(s, i + 1) ELSE i

\* re.sub(r"\s+", " ", text), scanning from index i.
RECURSIVE SubSpaceRuns_NoCollapse(_, _)
SubSpaceRuns_NoCollapse(s, i) ==
    IF i > Len(s) THEN <<>>
    ELSE IF IsSpace(s[i]) THEN <<SPACE>> \o SubSpaceRuns_NoCollapse(s, i + 1)
    ELSE <<s[i]>> \o SubSpaceRuns_NoCollapse(s, i + 1)

RECURSIVE SubSpaceRuns_Delete(_, _)
SubSpaceRuns_Delete(s, i) ==
    IF i > Len(s) THEN <<>>
    ELSE IF IsSpace(s[i]) THEN SubSpaceRuns_Delete(s, SkipSpace(s, i))
    ELSE <<s[i]>> \o SubSpaceRuns_Delete(s, i + 1)

RECURSIVE SubSpaceRuns(_, _)
SubSpaceRuns(s, i) ==
    IF i > Len(s) THEN <<>>
    ELSE IF IsSpace(s[i]) THEN <<SPACE>> \o SubSpaceRuns(s, SkipSpace(s, i))
    ELSE <<s[i]>> \o SubSpaceRuns(s, i + 1)

\* re.sub(r"\s*([.,;:!?])", r"\1", text), scanning from index i: a match
\* at i is the whole whitespace run at i followed by a punctuation mark.
RECURSIVE SubSpacePunct_BothSides(_, _)
SubSpacePunct_BothSides(s, i) ==
    IF i > Len(s) THEN <<>>
    ELSE LET j == SkipSpace(s, i)
         IN IF j <= Len(s) /\ IsPunct(s[j])
            THEN <<s[j]>> \o SubSpacePunct_BothSides(s, SkipSpace(s, j + 1))
            ELSE <<s[i]>> \o SubSpacePunct_BothSides(s, i + 1)

RECURSIVE SubSpacePunct_SpaceAfter(_, _)
SubSpacePunct_SpaceAfter(s, i) ==
    IF i > Len(s) THEN <<>>
    ELSE LET j == SkipSpace(s, i)
         IN IF j <= Len(s) /\ IsPunct(s[j])
            THEN <<s[j], SPACE>> \o SubSpacePunct_SpaceAfter(s, j + 1)
            ELSE <<s[i]>> \o SubSpacePunct_SpaceAfter(s, i + 1)

RECURSIVE SubSpacePunct(_, _)
SubSpacePunct(s, i) ==
    IF i > Len(s) THEN <<>>
    ELSE LET j == SkipSpace(s, i)
         IN IF j <= Len(s) /\ IsPunct(s[j])
            THEN <<s[j]>> \o SubSpacePunct(s, j + 1)
            ELSE <<s[i]>> \o SubSpacePunct(s, i + 1)

CleanSteps_NoStrip(s) == SubSpacePunct(SubSpaceRuns(s, 1), 1)

CleanSteps(s) == Strip(SubSpacePunct(SubSpaceRuns(s, 1), 1))

clean_text(text) ==
    IF ~Truthy(text) THEN Ok(PyStr(<<>>))
    ELSE IF text.t # "str" THEN Raise("TypeError")
    ELSE Ok(PyStr(CleanSteps(text.s)))

(***************************************************************************)
(* extract_verses                                                          *)
(***************************************************************************)
\* versions[0] (line 44): the first item of a list or tuple, the first
\* character of a str; a dict has no key 0; an int is not subscriptable.
\* The value is non-empty here (line 43).
FirstOf_Last(versions) ==
    CASE versions.t \in {"list", "tuple"} -> Ok(versions.l[Len(versions.l)])
      [] versions.t = "str" -> Ok(PyStr(<<versions.s[Len(versions.s)]>>))
      [] versions.t = "dict" -> Raise("KeyError")
      [] versions.t = "int" -> Raise("TypeError")

FirstOf(versions) ==
    CASE versions.t \in {"list", "tuple"} -> Ok(versions.l[1])
      [] versions.t = "str" -> Ok(PyStr(<<versions.s[1]>>))
      [] versions.t = "dict" -> Raise("KeyError")
      [] versions.t = "int" -> Raise("TypeError")

\* record.get("text", []) (line 44): only a dict has .get.
GetTextOrEmpty(record) ==
    IF record.t # "dict" THEN Raise("AttributeError")
    ELSE IF HasKey(record, "text") THEN Ok(GetKey(record, "text"))
    ELSE Ok(PyList(<<>>))

FirstVersionText(versions) ==
    IF FirstOf(versions).raised THEN FirstOf(versions)
    ELSE GetTextOrEmpty(FirstOf(versions).val)

\* Lines 34-44: the value the verses are taken from.
ResolveText_FallThrough(text_data) ==
    IF HasKey(text_data, "text") /\ Truthy(GetKey(text_data, "text"))
        THEN Ok(GetKey(text_data, "text"))
    ELSE IF HasKey(text_data, "he") /\ Truthy(GetKey(text_data, "he"))
        THEN Ok(GetKey(text_data, "he"))
    ELSE IF HasKey(text_data, "versions")
            /\ Truthy(GetKey(text_data, "versions"))
        THEN FirstVersionText(GetKey(text_data, "versions"))
    ELSE Ok(PyNone)

ResolveText(text_data) ==
    IF HasKey(text_data, "text") THEN Ok(GetKey(text_data, "text"))
    ELSE IF HasKey(text_data, "he") THEN Ok(GetKey(text_data, "he"))
    ELSE IF HasKey(text_data, "versions")
            /\ Truthy(GetKey(text_data, "versions"))
        THEN FirstVersionText(GetKey(text_data, "versions"))
    ELSE Ok(PyNone)

\* Lines 48-50: [str(verse).strip() for verse in text
\*               if verse and str(verse).strip()]
RECURSIVE VersesOfList_NoStrip(_)
VersesOfList_NoStrip(items) ==
    IF items = <<>> THEN <<>>
    ELSE LET verse == Head(items)
         IN IF Truthy(verse) /\ Strip(ToStr(verse)) # <<>>
            THEN <<PyStr(ToStr(verse))>> \o VersesOfList_NoStrip(Tail(items))
            ELSE VersesOfList_NoStrip(Tail(items))

RECURSIVE VersesOfList_KeepBlank(_)
VersesOfList_KeepBlank(items) ==
    IF items = <<>> THEN <<>>
    ELSE LET verse == Head(items)
         IN IF Truthy(verse)
            THEN <<PyStr(Strip(ToStr(verse)))>> \o VersesOfList_KeepBlank(Tail(items))
            ELSE VersesOfList_KeepBlank(Tail(items))

RECURSIVE VersesOfList(_)
VersesOfList(items) ==
    IF items = <<>> THEN <<>>
    ELSE LET verse == Head(items)
         IN IF Truthy(verse) /\ Strip(ToStr(verse)) # <<>>
            THEN <<PyStr(Strip(ToStr(verse)))>> \o VersesOfList(Tail(items))
            ELSE VersesOfList(Tail(items))

\* End of the run of line breaks that starts at index i.
RECURSIVE SkipLineBreaks(_, _)
SkipLineBreaks(s, i) ==
    IF i <= Len(s) /\ IsLineBreak(s[i]) THEN SkipLineBreaks(s, i + 1) ELSE i

\* re.split(r"[\n\r]+", text) (line 52), scanning from index i with the
\* segment cur open: a leading or trailing separator gives an empty segment.
RECURSIVE SplitLines(_, _, _)
SplitLines(s, i, cur) ==
    IF i > Len(s) THEN <<cur>>
    ELSE IF IsLineBreak(s[i])
         THEN <<cur>> \o SplitLines(s, SkipLineBreaks(s, i), <<>>)
    ELSE SplitLines(s, i + 1, Append(cur, s[i]))

\* Line 53: [verse.strip() for verse in verses if verse and verse.strip()]
RECURSIVE VersesOfLines(_)
VersesOfLines(verses) ==
    IF verses = <<>> THEN <<>>
    ELSE LET verse == Head(verses)
         IN IF verse # <<>> /\ Strip(verse) # <<>>
            THEN <<PyStr(Strip(verse))>> \o VersesOfLines(Tail(verses))
            ELSE VersesOfLines(Tail(verses))

\* Lines 47-55.
VersesOf(text) ==
    IF text.t = "list" THEN PyList(VersesOfList(text.l))
    ELSE IF text.t = "str" THEN PyList(VersesOfLines(SplitLines(text.s, 1, <<>>)))
    ELSE PyList(<<>>)

extract_verses_AnyText(text_data) ==
    IF text_data.t # "dict" THEN Ok(VersesOf(text_data))
    ELSE IF ResolveText(text_data).raised THEN ResolveText(text_data)
    ELSE Ok(VersesOf(ResolveText(text_data).val))

extract_verses(text_data) ==
    IF text_data.t # "dict" THEN Ok(PyList(<<>>))
    ELSE IF ResolveText(text_data).raised THEN ResolveText(text_data)
    ELSE Ok(VersesOf(ResolveText(text_data).val))

(***************************************************************************)
(* get_parallel_texts                                                      *)
(***************************************************************************)
\* Lines 107-110: a str becomes the list holding it.
AsList_Chars(x) ==
    IF x.t = "str" THEN PyList([i \in 1..Len(x.s) |-> PyStr(<<x.s[i]>>)]) ELSE x

AsList(x) == IF x.t = "str" THEN PyList(<<x>>) ELSE x

\* `for verse in x`: the items of a list or tuple, the keys of a dict, the
\* characters of a str; None and int are not iterable.
Iterate(x) ==
    CASE x.t \in {"list", "tuple"} -> Ok(PyList(x.l))
      [] x.t = "dict" -> Ok(PyList([i \in 1..Len(x.d) |-> PyStr(KeyChars(x.d[i][1]))]))
      [] x.t = "str" -> Ok(PyList([i \in 1..Len(x.s) |-> PyStr(<<x.s[i]>>)]))
      [] x.t \in {"none", "int"} -> Raise("TypeError")

\* Line 113: [format_hebrew(str(verse)) for verse in hebrew if verse]
RECURSIVE HebrewVerses_KeepSlots(_)
HebrewVerses_KeepSlots(items) ==
    IF items = <<>> THEN <<>>
    ELSE IF Truthy(Head(items))
         THEN <<format_hebrew(PyStr(ToStr(Head(items)))).val>>
              \o HebrewVerses_KeepSlots(Tail(items))
    ELSE <<PyStr(<<>>)>> \o HebrewVerses_KeepSlots(Tail(items))

RECURSIVE HebrewVerses(_)
HebrewVerses(items) ==
    IF items = <<>> THEN <<>>
    ELSE IF Truthy(Head(items))
         THEN <<format_hebrew(PyStr(ToStr(Head(items)))).val>>
              \o HebrewVerses(Tail(items))
    ELSE HebrewVerses(Tail(items))

\* Line 114: [str(verse).strip() for verse in english if verse]
RECURSIVE EnglishVerses_Formatted(_)
EnglishVerses_Formatted(items) ==
    IF items = <<>> THEN <<>>
    ELSE IF Truthy(Head(items))
         THEN <<format_hebrew(PyStr(ToStr(Head(items)))).val>>
              \o EnglishVerses_Formatted(Tail(items))
    ELSE EnglishVerses_Formatted(Tail(items))

RECURSIVE EnglishVerses(_)
EnglishVerses(items) ==
    IF items = <<>> THEN <<>>
    ELSE IF Truthy(Head(items))
         THEN <<PyStr(Strip(ToStr(Head(items))))>> \o EnglishVerses(Tail(items))
    ELSE EnglishVerses(Tail(items))

\* max(len(hebrew), len(english)) (line 117).
MaxOf(a, b) == IF a >= b THEN a ELSE b

\* Lines 117-125.
PairVerses_Zip(hebrew, english) ==
    [i \in 1..(IF Len(hebrew) <= Len(english) THEN Len(hebrew) ELSE Len(english))
        |-> PyTuple(<<hebrew[i], english[i]>>)]

PairVerses(hebrew, english) ==
    [i \in 1..MaxOf(Len(hebrew), Len(english)) |->
        PyTuple(<<IF i <= Len(hebrew) THEN hebrew[i] ELSE PyStr(<<>>),
                  IF i <= Len(english) THEN english[i] ELSE PyStr(<<>>)>>)]

get_parallel_texts(hebrew, english) ==
    IF Iterate(AsList(hebrew)).raised THEN Iterate(AsList(hebrew))
    ELSE IF Iterate(AsList(english)).raised THEN Iterate(AsList(english))
    ELSE Ok(PyList(PairVerses(HebrewVerses(Iterate(AsList(hebrew)).val.l),
                              EnglishVerses(Iterate(AsList(english)).val.l))))

(***************************************************************************)
(* SefariaClient (client.py).  A request is what a method hands to the     *)
(* requests library: the session that sends it, the verb, the URL, and the *)
(* params, json, headers and timeout arguments (None when not passed).     *)
(* The remote service answers a request attempt with a connection failure, *)
(* with status 503 (busy), or with a final status and a body.              *)
(***************************************************************************)
\* The characters of the strings the client and its callers name.
Chars(text) ==
    CASE text = "application/json" ->
            <<97, 112, 112, 108, 105, 99, 97, 116, 105, 111, 110, 47, 106,
            115, 111, 110>>
      [] text = "Unofficial-Sefaria-Python-SDK/0.1" ->
            <<85, 110, 111, 102, 102, 105, 99, 105, 97, 108, 45, 83, 101,
            102, 97, 114, 105, 97, 45, 80, 121, 116, 104, 111, 110, 45, 83,
            68, 75, 47, 48, 46, 49>>
      [] text = "/v3/texts/" ->
            <<47, 118, 51, 47, 116, 101, 120, 116, 115, 47>>
      [] text = "/texts/versions/" ->
            <<47, 116, 101, 120, 116, 115, 47, 118, 101, 114, 115, 105, 111,
            110, 115, 47>>
      [] text = "/manuscripts/" ->
            <<47, 109, 97, 110, 117, 115, 99, 114, 105, 112, 116, 115, 47>>
      [] text = "/texts/random" ->
            <<47, 116, 101, 120, 116, 115, 47, 114, 97, 110, 100, 111, 109>>
      [] text = "/v2/raw/index/" ->
            <<47, 118, 50, 47, 114, 97, 119, 47, 105, 110, 100, 101, 120,
            47>>
      [] text = "/index" ->
            <<47, 105, 110, 100, 101, 120>>
      [] text = "/ref-topic-links/" ->
            <<47, 114, 101, 102, 45, 116, 111, 112, 105, 99, 45, 108, 105,
            110, 107, 115, 47>>
      [] text = "/texts/translations/" ->
            <<47, 116, 101, 120, 116, 115, 47, 116, 114, 97, 110, 115, 108,
            97, 116, 105, 111, 110, 115, 47>>
      [] text = "/texts/translations" ->
            <<47, 116, 101, 120, 116, 115, 47, 116, 114, 97, 110, 115, 108,
            97, 116, 105, 111, 110, 115>>
      [] text = "text" ->
            <<116, 101, 120, 116>>
      [] text = "/search-wrapper" ->
            <<47, 115, 101, 97, 114, 99, 104, 45, 119, 114, 97, 112, 112,
            101, 114>>
      [] text = "/counts/" ->
            <<47, 99, 111, 117, 110, 116, 115, 47>>
      [] text = "/texts/list" ->
            <<47, 116, 101, 120, 116, 115, 47, 108, 105, 115, 116>>
      [] text = "/links/" ->
            <<47, 108, 105, 110, 107, 115, 47>>
      [] text = "/summary" ->
            <<47, 115, 117, 109, 109, 97, 114, 121>>
      [] text = "/related/" ->
            <<47, 114, 101, 108, 97, 116, 101, 100, 47>>
      [] text = "/history/" ->
            <<47, 104, 105, 115, 116, 111, 114, 121, 47>>
      [] text = "/calendars" ->
            <<47, 99, 97, 108, 101, 110, 100, 97, 114, 115>>
      [] text = "/bulktext" ->
            <<47, 98, 117, 108, 107, 116, 101, 120, 116>>
      [] text = "https://www.sefaria.org/api" ->
            <<104, 116, 116, 112, 115, 58, 47, 47, 119, 119, 119, 46, 115,
            101, 102, 97, 114, 105, 97, 46, 111, 114, 103, 47, 97, 112,
            105>>
      [] text = "http://x//" ->
            <<104, 116, 116, 112, 58, 47, 47, 120, 47, 47>>
      [] text = "Custom-Agent/1.0" ->
            <<67, 117, 115, 116, 111, 109, 45, 65, 103, 101, 110, 116, 47,
            49, 46, 48>>
      [] text = "Genesis 1:1-5" ->
            <<71, 101, 110, 101, 115, 105, 115, 32, 49, 58, 49, 45, 53>>
      [] text = "a/b~" ->
            <<97, 47, 98, 126>>
      [] text = "en" ->
            <<101, 110>>
      [] text = "JPS" ->
            <<74, 80, 83>>
      [] text = "exact" ->
            <<101, 120, 97, 99, 116>>
      [] text = "relevance" ->
            <<114, 101, 108, 101, 118, 97, 110, 99, 101>>
      [] text = "sheet" ->
            <<115, 104, 101, 101, 116>>
      [] text = "charity" ->
            <<99, 104, 97, 114, 105, 116, 121>>
\* Retry(total=4, ...) (line 28).
RetryTotal == 4

\* The status the service answers with while it is busy; it is in the
\* status_forcelist of line 30.
BusyStatus == 503

\* Lines 27-32.
Retry(total, status_forcelist, allowed_methods) ==
    [total |-> total, status_forcelist |-> status_forcelist,
     allowed_methods |-> allowed_methods]

\* Lines 24-34: the session of the client, both adapters with the retries.
ClientSession ==
    [owner |-> "SefariaClient",
     max_retries |-> Retry(RetryTotal, {429, 500, 502, 503, 504}, {"GET", "POST"})]

\* The session requests.get() makes for one request (lines 107, 302): the
\* default adapter of the library retries nothing.
DefaultSession ==
    [owner |-> "requests",
     max_retries |-> Retry(0, {}, {"DELETE", "GET", "HEAD", "OPTIONS", "PUT", "TRACE"})]

\* base_url.rstrip("/") (line 23).
RECURSIVE RStripSlash(_)
RStripSlash(s) ==
    IF s # <<>> /\ s[Len(s)] = 47 THEN RStripSlash(SubSeq(s, 1, Len(s) - 1))
    ELSE s

\* Lines 37-40: "application/json", and the user agent or, when that is
\* None or empty, "Unofficial-Sefaria-Python-SDK/0.1".
DefaultHeaders(user_agent) ==
    PyDict(<<<<"Accept", PyStr(Chars("application/json"))>>,
             <<"User-Agent",
               IF Truthy(user_agent) THEN user_agent
               ELSE PyStr(Chars("Unofficial-Sefaria-Python-SDK/0.1"))>>>>)

\* SefariaClient(base_url, user_agent) (lines 23-40).
SefariaClient(base_url, user_agent) ==
    [base_url |-> RStripSlash(base_url.s),
     session |-> ClientSession,
     headers |-> DefaultHeaders(user_agent)]

\* urllib.parse.quote(string): a str is encoded as UTF-8 (a lone surrogate
\* cannot be encoded: UnicodeEncodeError) and its bytes, or the bytes of a
\* bytes object, are quoted: the bytes of letters, digits, "_", ".", "-",
\* "~" and "/" stay; every other byte becomes %XX in upper-case
\* hexadecimal.
IsUnreserved(c) ==
    c \in ((65..90) \cup (97..122) \cup (48..57) \cup {95, 46, 45, 126, 47})

HexDigit(n) == IF n < 10 THEN 48 + n ELSE 55 + n

PercentByte(b) == <<37, HexDigit(b \div 16), HexDigit(b % 16)>>

\* chr(c).encode("utf-8")
Utf8(c) ==
    IF c \in 55296..57343 THEN Raise("UnicodeEncodeError")
    ELSE IF c < 128 THEN Ok(PyBytes(<<c>>))
    ELSE IF c < 2048 THEN Ok(PyBytes(<<192 + (c \div 64), 128 + (c % 64)>>))
    ELSE IF c < 65536
         THEN Ok(PyBytes(<<224 + (c \div 4096), 128 + ((c \div 64) % 64),
                           128 + (c % 64)>>))
    ELSE Ok(PyBytes(<<240 + (c \div 262144), 128 + ((c \div 4096) % 64),
                      128 + ((c \div 64) % 64), 128 + (c % 64)>>))

\* string.encode("utf-8", "strict")
RECURSIVE Encode(_)
Encode(s) ==
    IF s = <<>> THEN Ok(PyBytes(<<>>))
    ELSE IF Utf8(Head(s)).raised THEN Utf8(Head(s))
    ELSE IF Encode(Tail(s)).raised THEN Encode(Tail(s))
    ELSE Ok(PyBytes(Utf8(Head(s)).val.s \o Encode(Tail(s)).val.s))

\* quote_from_bytes(bs, safe="/"): the characters of the quoted string.
RECURSIVE quote_from_bytes(_)
quote_from_bytes(bs) ==
    IF bs = <<>> THEN <<>>
    ELSE (IF IsUnreserved(Head(bs)) THEN <<Head(bs)>> ELSE PercentByte(Head(bs)))
         \o quote_from_bytes(Tail(bs))

\* quote() of a value that is neither str nor bytes raises TypeError, and
\* of a str that cannot be encoded UnicodeEncodeError.
quote(string) ==
    IF string.t = "bytes" THEN Ok(PyStr(quote_from_bytes(string.s)))
    ELSE IF string.t # "str" THEN Raise("TypeError")
    ELSE IF Encode(string.s).raised THEN Encode(string.s)
    ELSE Ok(PyStr(quote_from_bytes(Encode(string.s).val.s)))

\* dict[key] = value, dict.update(other), dict.pop(key).
DictSet(items, key, value) ==
    IF \E i \in 1..Len(items) : items[i][1] = key
    THEN [i \in 1..Len(items) |-> IF items[i][1] = key THEN <<key, value>>
                                  ELSE items[i]]
    ELSE Append(items, <<key, value>>)

RECURSIVE DictUpdate(_, _)
DictUpdate(items, other) ==
    IF other = <<>> THEN items
    ELSE DictUpdate(DictSet(items, Head(other)[1], Head(other)[2]), Tail(other))

DictPop(items, key) == SelectSeq(items, LAMBDA p : p[1] # key)

NoRequest ==
    [session |-> DefaultSession, verb |-> "", url |-> <<>>, params |-> PyNone,
     json |-> PyNone, headers |-> PyNone, timeout |-> 0]

Request(session, verb, url, params, json, headers, timeout) ==
    [session |-> session, verb |-> verb, url |-> url, params |-> params,
     json |-> json, headers |-> headers, timeout |-> timeout]

\* What a method does up to its request: it sends one, or it raises.
Sends(request) == [raised |-> FALSE, exc |-> "", request |-> request]

Fails(exc) == [raised |-> TRUE, exc |-> exc, request |-> NoRequest]

\* self.session.get(endpoint, headers=self.headers, timeout=15) with the
\* endpoint f"{self.base_url}<path>{quote(x)}<suffix>".
SessionGetQuoted(self, path, x, suffix) ==
    IF quote(x).raised THEN Fails(quote(x).exc)
    ELSE Sends(Request(self.session, "GET",
                       self.base_url \o path \o quote(x).val.s \o suffix,
                       PyNone, PyNone, self.headers, 15))

\* self.session.get(endpoint, headers=self.headers, timeout=15) with the
\* endpoint f"{self.base_url}<path>".
SessionGetPlain(self, path) ==
    Sends(Request(self.session, "GET", self.base_url \o path,
                  PyNone, PyNone, self.headers, 15))

\* params = {}; if a: params[ka] = a; if b: params[kb] = b
OptionalParams(ka, a, kb, b) ==
    PyDict((IF Truthy(a) THEN <<<<ka, a>>>> ELSE <<>>)
           \o (IF Truthy(b) THEN <<<<kb, b>>>> ELSE <<>>))

\* Lines 52-55.
get_text(self, tref, kwargs) ==
    IF quote(tref).raised THEN Fails(quote(tref).exc)
    ELSE Sends(Request(self.session, "GET",
                       self.base_url \o Chars("/v3/texts/") \o quote(tref).val.s,
                       kwargs, PyNone, self.headers, 15))

\* Lines 68-69.
get_versions(self, index) == SessionGetQuoted(self, Chars("/texts/versions/"), index, <<>>)

\* Lines 82-83.
get_manuscripts(self, tref) == SessionGetQuoted(self, Chars("/manuscripts/"), tref, <<>>)

\* Lines 99-107: requests.get(endpoint, params=params, timeout=15).
get_random_text(self, titles, categories) ==
    Sends(Request(DefaultSession, "GET", self.base_url \o Chars("/texts/random"),
                  OptionalParams("titles", titles, "categories", categories),
                  PyNone, PyNone, 15))

\* Lines 120-121.
get_index(self, index_title) ==
    SessionGetQuoted(self, Chars("/v2/raw/index/"), index_title, <<>>)

\* Lines 131-132.
get_table_of_contents(self) == SessionGetPlain(self, Chars("/index"))

\* Lines 145-146.
get_ref_topic_links(self, tref) ==
    SessionGetQuoted(self, Chars("/ref-topic-links/"), tref, <<>>)

\* Lines 159-160.
get_translations(self, lang) ==
    SessionGetQuoted(self, Chars("/texts/translations/"), lang, <<>>)

\* Lines 170-171.
get_languages(self) == SessionGetPlain(self, Chars("/texts/translations"))

\* The parameters of search that have a default (lines 178-181).
SearchDefaults ==
    <<<<"type", PyStr(Chars("text"))>>, <<"field", PyNone>>,
      <<"offset", PyInt(0)>>, <<"limit", PyInt(10)>>>>

\* The value a named parameter is bound to: the caller's or the default.
Bound(given, name) ==
    IF HasKey(given, name) THEN GetKey(given, name)
    ELSE GetKey(PyDict(SearchDefaults), name)

\* Lines 197-210; `given` holds the keyword arguments of the call, those
\* that name no parameter are **kwargs.
search(self, query, given) ==
    LET kwargs == SelectSeq(given.d,
                            LAMBDA p : p[1] \notin {"type", "field", "offset", "limit"})
        payload == <<<<"query", query>>, <<"type", Bound(given, "type")>>,
                     <<"offset", Bound(given, "offset")>>,
                     <<"limit", Bound(given, "limit")>>>>
        with_field == IF Truthy(Bound(given, "field"))
                      THEN DictSet(payload, "field", Bound(given, "field"))
                      ELSE payload
        updated == DictUpdate(with_field, kwargs)
        mapped == IF HasKey(PyDict(updated), "limit")
                  THEN DictSet(DictPop(updated, "limit"), "size",
                               GetKey(PyDict(updated), "limit"))
                  ELSE updated
    IN Sends(Request(self.session, "POST", self.base_url \o Chars("/search-wrapper"),
                     PyNone, PyDict(mapped), self.headers, 20))

\* Lines 223-224.
get_counts(self, title) == SessionGetQuoted(self, Chars("/counts/"), title, <<>>)

\* Lines 234-235.
get_text_list(self) == SessionGetPlain(self, Chars("/texts/list"))

\* Lines 248-249.
get_links(self, tref) == SessionGetQuoted(self, Chars("/links/"), tref, <<>>)

\* Lines 262-263.
get_link_summary(self, tref) ==
    SessionGetQuoted(self, Chars("/links/"), tref, Chars("/summary"))

\* Lines 276-277.
get_related(self, tref) == SessionGetQuoted(self, Chars("/related/"), tref, <<>>)

\* Lines 294-302: requests.get(endpoint, params=params, timeout=15).
get_history(self, tref, language, version) ==
    IF quote(tref).raised THEN Fails(quote(tref).exc)
    ELSE Sends(Request(DefaultSession, "GET",
                       self.base_url \o Chars("/history/") \o quote(tref).val.s,
                       OptionalParams("language", language, "version", version),
                       PyNone, PyNone, 15))

\* Lines 318-328.
get_calendar_items(self, timezone, custom) ==
    Sends(Request(self.session, "GET", self.base_url \o Chars("/calendars"),
                  OptionalParams("timezone", timezone, "custom", custom),
                  PyNone, self.headers, 15))

\* Line 341.
get_calendar(self, timezone) == get_calendar_items(self, timezone, PyNone)

\* Lines 352-355.
get_ref_data(self, refs) ==
    Sends(Request(self.session, "POST", self.base_url \o Chars("/bulktext"),
                  PyNone, PyDict(<<<<"refs", refs>>>>), self.headers, 20))

\* What the library hands back for a request: after `attempts` attempts an
\* exception of the transport, or a response with a status and a body.
Delivered(attempts, outcome, status, body) ==
    [attempts |-> attempts, raised |-> outcome.raised, exc |-> outcome.exc,
     status |-> status, body |-> body]

\* The session sends the request to a service that answers the first
\* reply.busy attempts with 503 and every later attempt with reply.status.
\* A connection failure is retried `total` times and then raised.  An
\* answer is retried when its status is in the status_forcelist of the
\* session and the verb is allowed, and RetryError is raised when the
\* retries are used up; any other answer is the response.
Transport(request, reply) ==
    LET retry == request.session.max_retries
        Retried(status) == /\ status \in retry.status_forcelist
                           /\ request.verb \in retry.allowed_methods
    IN IF reply.down
       THEN Delivered(retry.total + 1, Raise("ConnectionError"), 0, Raise(""))
       ELSE IF reply.busy > 0 /\ ~Retried(BusyStatus)
       THEN Delivered(1, Ok(PyNone), BusyStatus, reply.body)
       ELSE IF reply.busy > retry.total \/ Retried(reply.status)
       THEN Delivered(retry.total + 1, Raise("RetryError"), 0, Raise(""))
       ELSE Delivered(reply.busy + 1, Ok(PyNone), reply.status, reply.body)

\* response.raise_for_status(): HTTPError for a 4xx or 5xx status.
RaiseForStatus_ServerErrorsOnly(status) == status \in 500..599

RaiseForStatus(status) == status \in 400..599

\* response.raise_for_status(); return response.json()
Finish(delivered) ==
    IF delivered.raised THEN Raise(delivered.exc)
    ELSE IF RaiseForStatus(delivered.status) THEN Raise("HTTPError")
    ELSE delivered.body

(***************************************************************************)
(* The inputs the calls are explored on.                                   *)
(***************************************************************************)
StrsUpTo(alphabet, maxLen) == UNION {[1..k -> alphabet] : k \in 0..maxLen}

\* Arguments that are not strings: None, numbers, lists, dicts.
NonStrArgs ==
    {PyNone, PyInt(0), PyInt(5), PyList(<<>>), PyList(<<PyStr(<<97>>)>>),
     PyDict(<<>>), PyDict(<<<<"text", PyStr(<<97>>)>>>>)}

\* Space, newline, "a", ".", ",".
CleanTextArgs ==
    {PyStr(s) : s \in StrsUpTo({32, 10, 97, 46, 44}, MaxStrLen)} \cup NonStrArgs

\* The marker, space, alef.
FormatHebrewArgs ==
    {PyStr(s) : s \in StrsUpTo({RLM, 32, 1488}, MaxStrLen)} \cup NonStrArgs

\* Source verses: None, "", " ", alef, marker + bet + space.
HebrewItems ==
    {PyNone, PyStr(<<>>), PyStr(<<32>>), PyStr(<<1488>>),
     PyStr(<<RLM, 1489, 32>>)}

\* Target verses: "", "a", " b", 7.
EnglishItems == {PyStr(<<>>), PyStr(<<97>>), PyStr(<<32, 98>>), PyInt(7)}

ListsUpTo(items, maxLen) == {PyList(l) : l \in StrsUpTo(items, maxLen)}

HebrewArgs ==
    ListsUpTo(HebrewItems, MaxVerses)
    \cup {PyStr(<<>>), PyStr(<<32, 1488>>), PyNone, PyInt(5),
          PyDict(<<<<"text", PyNone>>, <<"he", PyNone>>>>)}

EnglishArgs ==
    ListsUpTo(EnglishItems, MaxVerses)
    \cup {PyStr(<<>>), PyStr(<<97, 32>>), PyNone, PyInt(5)}

\* Verses of a document: None, "", " ", " a ", -3, 0, 12.
VerseItems ==
    {PyNone, PyStr(<<>>), PyStr(<<32>>), PyStr(<<32, 97, 32>>),
     PyInt(0 - 3), PyInt(0), PyInt(12)}

\* Values under `text`: lists of verses, lists with a verse that holds a
\* line break, strings over newline, carriage return, space and "a", and
\* values that are neither.
TextValues ==
    ListsUpTo(VerseItems, MaxVerses)
    \cup {PyList(<<PyStr(<<97, 10, 98>>)>>),
          PyList(<<PyStr(<<32, 97, 13>>), PyStr(<<98, 13, 10, 99>>)>>)}
    \cup {PyStr(s) : s \in StrsUpTo({10, 13, 32, 97}, MaxStrLen)}
    \cup {PyNone, PyInt(5), PyTuple(<<PyStr(<<97>>)>>), PyDict(<<>>)}

HeValues ==
    {PyNone, PyList(<<>>), PyList(<<PyStr(<<1488>>), PyStr(<<1489>>)>>),
     PyStr(<<1488, 10, 1489>>)}

VersionRecord(text) == PyDict(<<<<"language", PyStr(<<101, 110>>)>>, <<"text", text>>>>)

\* Values under `versions`: well-formed lists of version-records, and
\* values that are not a sequence of mappings.
VersionsValues ==
    {PyList(<<>>),
     PyList(<<VersionRecord(PyList(<<PyStr(<<120>>), PyStr(<<121>>)>>))>>),
     PyList(<<VersionRecord(PyStr(<<120, 10, 121>>)),
              VersionRecord(PyList(<<PyStr(<<122>>)>>))>>),
     PyList(<<PyDict(<<>>), VersionRecord(PyList(<<PyStr(<<122>>)>>))>>),
     PyList(<<PyDict(<<<<"language", PyStr(<<104, 101>>)>>>>)>>),
     PyTuple(<<VersionRecord(PyList(<<PyStr(<<120>>)>>))>>),
     PyList(<<PyStr(<<120>>)>>), PyList(<<PyInt(5)>>), PyList(<<PyNone>>),
     PyStr(<<120, 121>>), PyStr(<<>>),
     PyDict(<<<<"text", PyList(<<PyStr(<<120>>)>>)>>>>),
     PyInt(5), PyInt(0), PyNone}

\* A document: each of the three keys absent or present with a value.
Optional(key, values) == {<<>>} \cup {<<<<key, v>>>> : v \in values}

\* Every value under `text` beside a few values under the other keys, and
\* every value under `he` and `versions` beside a few values under `text`.
Documents ==
    {PyDict(t \o h \o v) :
        t \in Optional("text", TextValues),
        h \in Optional("he", {PyList(<<PyStr(<<1488>>), PyStr(<<1489>>)>>)}),
        v \in Optional("versions",
                {PyList(<<VersionRecord(PyList(<<PyStr(<<120>>)>>))>>),
                 PyList(<<PyStr(<<120>>)>>)})}
    \cup
    {PyDict(t \o h \o v) :
        t \in Optional("text", {PyNone, PyList(<<>>), PyStr(<<>>), PyInt(5),
                                PyList(<<PyStr(<<97>>)>>)}),
        h \in Optional("he", HeValues),
        v \in Optional("versions", VersionsValues)}

\* Documents, a mapping without any of the three keys, and values that are
\* not mappings.
ExtractVersesArgs ==
    Documents
    \cup {PyDict(<<<<"language", PyStr(<<101, 110>>)>>>>)}
    \cup {PyNone, PyStr(<<97>>), PyInt(5), PyList(<<PyStr(<<97>>)>>)}

\* The Hebrew texts of the fetched documents a caller aligns: lists with a
\* padded verse, a verse that begins with the marker, null and numeric
\* verses and a verse with a line break, strings of lines, no verses and
\* null; and the verse lists extract_verses gives for each of them.
RawHebrewTexts ==
    {PyList(<<PyStr(<<1488>>), PyStr(<<RLM, 1489, 32>>)>>),
     PyList(<<PyStr(<<32, 97, 32>>), PyNone, PyInt(12), PyStr(<<32>>)>>),
     PyList(<<PyStr(<<97, 10, 98>>)>>),
     PyList(<<>>),
     PyStr(<<32, 10>>),
     PyStr(<<1488, 10, 1489>>),
     PyNone}

HebrewTexts ==
    RawHebrewTexts
    \cup {extract_verses(PyDict(<<<<"text", h>>>>)).val : h \in RawHebrewTexts}

\* The texts of the first version of those documents.
EnglishTexts ==
    {PyStr(<<120, 10, 121, 10, 32, 122>>),
     PyList(<<PyStr(<<32, 120, 32>>), PyNone, PyStr(<<121>>)>>),
     PyList(<<>>),
     PyStr(<<32, 10>>)}

\* The fetched documents a caller aligns, {"versions": [{"text": ...}],
\* "he": ...}; and documents without `versions`, without a version, with a
\* version without `text`, with a version that is a string, and without
\* `he`; and null in place of the document.
AlignedDocuments ==
    {PyDict(<<<<"versions", PyList(<<VersionRecord(e)>>)>>, <<"he", h>>>>) :
        e \in EnglishTexts, h \in HebrewTexts}
    \cup {PyDict(<<<<"he", PyList(<<PyStr(<<1488>>)>>)>>>>),
          PyDict(<<<<"versions", PyList(<<>>)>>, <<"he", PyList(<<PyStr(<<1488>>)>>)>>>>),
          PyDict(<<<<"versions", PyList(<<PyDict(<<>>)>>)>>,
                   <<"he", PyList(<<PyStr(<<1488>>)>>)>>>>),
          PyDict(<<<<"versions", PyStr(<<120>>)>>, <<"he", PyList(<<PyStr(<<1488>>)>>)>>>>),
          PyDict(<<<<"versions", PyList(<<VersionRecord(PyList(<<PyStr(<<120>>)>>))>>)>>>>),
          PyNone}

\* A process that makes no client.
NoClient == [base_url |-> <<>>, session |-> DefaultSession, headers |-> PyNone]

\* The default base URL and one that ends in slashes.
BaseUrls == {PyStr(Chars("https://www.sefaria.org/api")), PyStr(Chars("http://x//"))}

UserAgents == {PyNone, PyStr(<<>>), PyStr(Chars("Custom-Agent/1.0"))}

\* References and titles: "Genesis 1:1-5", alef, "a/b~", "", a string with
\* a lone surrogate, the bytes b"a \xd7", and None.
Refs ==
    {PyStr(Chars("Genesis 1:1-5")), PyStr(<<1488>>), PyStr(Chars("a/b~")),
     PyStr(<<>>), PyStr(<<97, 56320>>), PyBytes(<<97, 32, 215>>), PyNone}

\* An optional string parameter: omitted, empty or given.
OptionalStrs == {PyNone, PyStr(<<>>), PyStr(Chars("en"))}

\* The keyword arguments of a get_text call.
TextKwargs ==
    {PyDict(<<>>),
     PyDict(<<<<"lang", PyStr(Chars("en"))>>, <<"version", PyStr(Chars("JPS"))>>>>)}

\* The keyword arguments of a search call.
SearchKwargs ==
    {PyDict(<<>>),
     PyDict(<<<<"limit", PyInt(5)>>>>),
     PyDict(<<<<"limit", PyInt(0)>>, <<"field", PyStr(<<>>)>>>>),
     PyDict(<<<<"field", PyStr(Chars("exact"))>>>>),
     PyDict(<<<<"limit", PyInt(10)>>, <<"sort_type", PyStr(Chars("relevance"))>>>>),
     PyDict(<<<<"type", PyStr(Chars("sheet"))>>, <<"offset", PyInt(20)>>,
              <<"filters", PyList(<<PyStr(Chars("en"))>>)>>>>),
     PyDict(<<<<"size", PyInt(50)>>>>),
     PyDict(<<<<"sort_type", PyStr(Chars("relevance"))>>, <<"size", PyInt(50)>>,
              <<"limit", PyInt(5)>>>>)}

Queries == {PyStr(Chars("charity")), PyStr(<<>>)}

RefLists == {PyList(<<>>), PyList(<<PyStr(Chars("Genesis 1:1-5")), PyStr(<<1488>>)>>), PyNone}

\* The documents the service holds: an empty one and one with verses.
FetchedDocuments ==
    {PyDict(<<>>),
     PyDict(<<<<"versions", PyList(<<VersionRecord(PyList(<<PyStr(<<120>>)>>))>>)>>>>)}

\* response.json(): the decoded body, or an exception for a body that is
\* not JSON.
Bodies == {Ok(d) : d \in FetchedDocuments} \cup {Raise("JSONDecodeError")}

\* What the service does to the attempts of one request: it cannot be
\* reached; or it answers the first `busy` attempts with 503 and every
\* later attempt with a status and a body.
Replies ==
    {[down |-> TRUE, busy |-> 0, status |-> 0, body |-> Raise("")]}
    \cup {[down |-> FALSE, busy |-> k, status |-> s, body |-> b] :
             k \in 0..MaxBusy, s \in {200, 404, 500}, b \in Bodies}

\* A process that makes no async client.
NoAio ==
    [pc |-> "none", session |-> 0, sessions |-> <<>>, body |-> <<>>,
     exc |-> "", call |-> "", tasks |-> <<>>, results |-> <<>>, outside |-> 0]

\* What an await of a request of the async client ends in: it goes on, or
\* an exception of the library is raised.
RequestOutcomes == {"ok", "ClientError", "TimeoutError"}

\* The calls in the body of an `async with` block.
BlockBodies == StrsUpTo({"get_text_async", "fetch_multiple_texts"}, MaxRequests)

NoResult == Raise("")

\* Concurrent callers, and a caller that has made no call.
Threads == 1..NumThreads

IdleThread == [fn |-> "", a |-> <<>>, pc |-> "idle", out |-> NoResult]

\* The names of a call's frame before anything is bound to them.
EmptyFrame ==
    [text_data |-> PyNone, text |-> PyNone, hebrew |-> PyNone,
     english |-> PyNone, pairs |-> <<>>]

(***************************************************************************)
(* The calls.  A caller picks a function and its arguments; the call runs  *)
(* to its outcome; the caller may pass the value returned by format_hebrew *)
(* to format_hebrew again, the string returned by clean_text to clean_text *)
(* again, and the verses returned by extract_verses to extract_verses      *)
(* again as a document {"text": verses}; a caller that aligns the two      *)
(* texts of a fetched document extracts the verses of both and passes the  *)
(* Hebrew text and the English verses to get_parallel_texts.               *)
(***************************************************************************)
Init ==
    /\ pc = "ready"
    /\ result = NoResult
    /\ prev = NoResult
    /\ hops = 0
    /\ threads = [t \in Threads |-> IdleThread]
    /\ frames = [t \in Threads |-> EmptyFrame]
    /\ client = NoClient
    /\ wire = <<>>
    /\ aio = NoAio
    /\ \/ fn = "extract_verses" /\ args \in {<<a>> : a \in ExtractVersesArgs}
       \/ fn = "format_hebrew" /\ args \in {<<a>> : a \in FormatHebrewArgs}
       \/ fn = "clean_text" /\ args \in {<<a>> : a \in CleanTextArgs}
       \/ fn = "get_parallel_texts" /\ args \in HebrewArgs \X EnglishArgs
       \/ fn = "align_documents" /\ args \in {<<d>> : d \in AlignedDocuments}

CallExtractVerses ==
    /\ pc = "ready" /\ fn = "extract_verses"
    /\ result' = extract_verses(args[1])
    /\ pc' = "done"
    /\ UNCHANGED <<fn, args, prev, hops, threads, frames, client, wire, aio>>

CallFormatHebrew ==
    /\ pc = "ready" /\ fn = "format_hebrew"
    /\ result' = format_hebrew(args[1])
    /\ pc' = "done"
    /\ UNCHANGED <<fn, args, prev, hops, threads, frames, client, wire, aio>>

CallGetParallelTexts ==
    /\ pc = "ready" /\ fn = "get_parallel_texts"
    /\ result' = get_parallel_texts(args[1], args[2])
    /\ pc' = "done"
    /\ UNCHANGED <<fn, args, prev, hops, threads, frames, client, wire, aio>>

CallCleanText ==
    /\ pc = "ready" /\ fn = "clean_text"
    /\ result' = clean_text(args[1])
    /\ pc' = "done"
    /\ UNCHANGED <<fn, args, prev, hops, threads, frames, client, wire, aio>>

\* The caller formats an already formatted string again.
FormatAgain ==
    /\ pc = "done" /\ fn = "format_hebrew"
    /\ ~result.raised
    /\ hops < MaxChain
    /\ prev' = result
    /\ args' = <<result.val>>
    /\ hops' = hops + 1
    /\ pc' = "ready"
    /\ UNCHANGED <<fn, result, threads, frames, client, wire, aio>>

\* The caller cleans an already cleaned string again.
CleanAgain ==
    /\ pc = "done" /\ fn = "clean_text"
    /\ ~result.raised
    /\ hops < MaxChain
    /\ prev' = result
    /\ args' = <<result.val>>
    /\ hops' = hops + 1
    /\ pc' = "ready"
    /\ UNCHANGED <<fn, result, threads, frames, client, wire, aio>>

\* The caller extracts from the document {"text": verses} built around the
\* verses of an earlier extraction.
ExtractAgain ==
    /\ pc = "done" /\ fn = "extract_verses"
    /\ ~result.raised
    /\ hops < MaxChain
    /\ prev' = result
    /\ args' = <<PyDict(<<<<"text", result.val>>>>)>>
    /\ hops' = hops + 1
    /\ pc' = "ready"
    /\ UNCHANGED <<fn, result, threads, frames, client, wire, aio>>

\* Lines 51-58 of test_integration.py: the caller takes the text of the
\* first version and the Hebrew text out of a fetched document and extracts
\* the verses of both, the English ones first.  The value is the tuple
\* (text_data["he"], english_verses, hebrew_verses); an exception of a
\* subscript or of an extraction ends the workflow.
ExtractBothTexts(text_data) ==
    LET versions == Subscript(text_data, "versions")
        version == IF versions.raised THEN versions
                   ELSE SubscriptFirst(versions.val)
        english_text == IF version.raised THEN version
                        ELSE Subscript(version.val, "text")
        english_verses ==
            IF english_text.raised THEN english_text
            ELSE extract_verses(PyDict(<<<<"text", english_text.val>>>>))
        he == Subscript(text_data, "he")
        hebrew_verses ==
            IF he.raised THEN he
            ELSE extract_verses(PyDict(<<<<"text", he.val>>>>))
    IN IF english_verses.raised THEN english_verses
       ELSE IF hebrew_verses.raised THEN hebrew_verses
       ELSE Ok(PyTuple(<<he.val, english_verses.val, hebrew_verses.val>>))

\* Lines 51-62: after the two extractions the caller passes the Hebrew text
\* as fetched, with the extracted English verses, to get_parallel_texts; the
\* extracted Hebrew verses are kept aside.
ExtractBoth ==
    /\ pc = "ready" /\ fn = "align_documents"
    /\ LET extracted == ExtractBothTexts(args[1])
       IN IF extracted.raised
          THEN /\ result' = extracted
               /\ pc' = "done"
               /\ UNCHANGED <<fn, args, prev, hops>>
          ELSE /\ fn' = "get_parallel_texts"
               /\ args' = <<extracted.val.l[1], extracted.val.l[2]>>
               /\ prev' = Ok(extracted.val.l[3])
               /\ hops' = hops + 1
               /\ UNCHANGED <<pc, result>>
    /\ UNCHANGED <<threads, frames, client, wire, aio>>

Next ==
    \/ CallExtractVerses
    \/ CallFormatHebrew
    \/ CallGetParallelTexts
    \/ CallCleanText
    \/ FormatAgain
    \/ CleanAgain
    \/ ExtractAgain
    \/ ExtractBoth

Spec == Init /\ [][Next]_vars

(***************************************************************************)
(* Concurrent calls.  Each thread makes one call and runs it statement by  *)
(* statement; the statements of different threads interleave freely.  The  *)
(* names a call assigns (its parameters and locals) live in the frame of   *)
(* the call; a thread's `a` holds the objects its caller passed.           *)
(***************************************************************************)
\* The calls a thread can make.
ThreadCalls ==
    {<<"get_parallel_texts",
       <<PyList(<<PyStr(<<1488>>), PyStr(<<>>), PyStr(<<RLM, 1489, 32>>)>>),
         PyList(<<PyStr(<<97>>), PyStr(<<32, 98>>)>>)>>>>,
     <<"get_parallel_texts", <<PyStr(<<32, 1488>>), PyStr(<<97, 32>>)>>>>,
     <<"get_parallel_texts", <<PyNone, PyList(<<>>)>>>>,
     <<"get_parallel_texts",
       <<PyList(<<PyStr(<<1488>>)>>),
         PyList(<<PyInt(7), PyStr(<<97>>), PyStr(<<32, 98>>)>>)>>>>,
     <<"format_hebrew", <<PyStr(<<32, 1488, 32>>)>>>>,
     <<"format_hebrew", <<PyInt(5)>>>>,
     <<"clean_text", <<PyStr(<<97, 32, 46, 10, 98>>)>>>>,
     <<"clean_text", <<PyNone>>>>,
     <<"extract_verses",
       <<PyDict(<<<<"text", PyList(<<PyStr(<<32, 97, 32>>), PyNone, PyInt(12)>>)>>,
                  <<"versions", PyList(<<VersionRecord(PyStr(<<120>>))>>)>>>>)>>>>,
     <<"extract_verses", <<PyDict(<<<<"versions", PyList(<<PyStr(<<120>>)>>)>>>>)>>>>}

InitThreads ==
    /\ fn = "" /\ args = <<>> /\ pc = "threads"
    /\ result = NoResult /\ prev = NoResult /\ hops = 0
    /\ threads \in [Threads -> {[fn |-> c[1], a |-> c[2], pc |-> "call", out |-> NoResult]
                                : c \in ThreadCalls}]
    /\ frames = [t \in Threads |-> EmptyFrame]
    /\ client = NoClient
    /\ wire = <<>>
    /\ aio = NoAio

\* The frame that holds the names of thread t's call: the functions are
\* static methods and assign to parameters and locals only (no attribute,
\* no global), so every call has a frame of its own.
FrameOf_Shared(t) == 1

FrameOf(t) == t

Frame(t) == frames[FrameOf(t)]

At(t, line) == threads[t].pc = line

Goto(t, line) == threads' = [threads EXCEPT ![t].pc = line]

Return(t, outcome) ==
    threads' = [threads EXCEPT ![t].pc = "done", ![t].out = outcome]

Bind(t, frame) == frames' = [frames EXCEPT ![FrameOf(t)] = frame]

Sequential == UNCHANGED <<fn, args, pc, result, prev, hops, client, wire, aio>>

FirstLine(f) ==
    CASE f = "extract_verses" -> "L30"
      [] f = "format_hebrew" -> "L71"
      [] f = "get_parallel_texts" -> "L107"
      [] f = "clean_text" -> "L142"

\* The call binds the arguments to the parameters.
Enter(t) ==
    /\ At(t, "call")
    /\ Bind(t, IF threads[t].fn = "get_parallel_texts"
               THEN [EmptyFrame EXCEPT !.hebrew = threads[t].a[1],
                                       !.english = threads[t].a[2]]
               ELSE IF threads[t].fn = "extract_verses"
               THEN [EmptyFrame EXCEPT !.text_data = threads[t].a[1]]
               ELSE [EmptyFrame EXCEPT !.text = threads[t].a[1]])
    /\ Goto(t, FirstLine(threads[t].fn))
    /\ Sequential

\* extract_verses, lines 30-31.
ExtractVerses_L30(t) ==
    /\ At(t, "L30")
    /\ IF Frame(t).text_data.t # "dict"
       THEN Return(t, Ok(PyList(<<>>)))
       ELSE Goto(t, "L34")
    /\ UNCHANGED frames
    /\ Sequential

\* extract_verses, lines 34-44.
ExtractVerses_L34(t) ==
    /\ At(t, "L34")
    /\ IF ResolveText(Frame(t).text_data).raised
       THEN Return(t, ResolveText(Frame(t).text_data)) /\ UNCHANGED frames
       ELSE /\ Bind(t, [Frame(t) EXCEPT !.text = ResolveText(Frame(t).text_data).val])
            /\ Goto(t, "L47")
    /\ Sequential

\* extract_verses, lines 47-55.
ExtractVerses_L47(t) ==
    /\ At(t, "L47")
    /\ Return(t, Ok(VersesOf(Frame(t).text)))
    /\ UNCHANGED frames
    /\ Sequential

\* format_hebrew, lines 71-72.
FormatHebrew_L71(t) ==
    /\ At(t, "L71")
    /\ IF ~Truthy(Frame(t).text) THEN Return(t, Ok(PyStr(<<>>))) ELSE Goto(t, "L75")
    /\ UNCHANGED frames
    /\ Sequential

\* format_hebrew, lines 75-76.
FormatHebrew_L75(t) ==
    /\ At(t, "L75")
    /\ IF Frame(t).text.t # "str"
       THEN Return(t, Raise("AttributeError")) /\ UNCHANGED frames
       ELSE /\ Bind(t, [Frame(t) EXCEPT !.text = PyStr(AddMarker(Frame(t).text.s))])
            /\ Goto(t, "L82")
    /\ Sequential

\* format_hebrew, lines 82-84.
FormatHebrew_L82(t) ==
    /\ At(t, "L82")
    /\ Bind(t, [Frame(t) EXCEPT !.text = PyStr(Strip(Frame(t).text.s))])
    /\ Return(t, Ok(PyStr(Strip(Frame(t).text.s))))
    /\ Sequential

\* get_parallel_texts, lines 107-110.
GetParallelTexts_L107(t) ==
    /\ At(t, "L107")
    /\ Bind(t, [Frame(t) EXCEPT !.hebrew = AsList(Frame(t).hebrew),
                                 !.english = AsList(Frame(t).english)])
    /\ Goto(t, "L113")
    /\ Sequential

\* get_parallel_texts, line 113: the new list is bound to the name hebrew;
\* the list the caller passed is only read.
GetParallelTexts_L113_InPlace(t) ==
    /\ At(t, "L113")
    /\ IF Iterate(Frame(t).hebrew).raised
       THEN Return(t, Iterate(Frame(t).hebrew)) /\ UNCHANGED frames
       ELSE /\ Bind(t, [Frame(t) EXCEPT !.hebrew =
                          PyList(HebrewVerses(Iterate(Frame(t).hebrew).val.l))])
            /\ threads' = [threads EXCEPT
                  ![t].pc = "L114",
                  ![t].a[1] = PyList(HebrewVerses(Iterate(Frame(t).hebrew).val.l))]
    /\ Sequential

GetParallelTexts_L113(t) ==
    /\ At(t, "L113")
    /\ IF Iterate(Frame(t).hebrew).raised
       THEN Return(t, Iterate(Frame(t).hebrew)) /\ UNCHANGED frames
       ELSE /\ Bind(t, [Frame(t) EXCEPT !.hebrew =
                          PyList(HebrewVerses(Iterate(Frame(t).hebrew).val.l))])
            /\ Goto(t, "L114")
    /\ Sequential

\* get_parallel_texts, line 114.
GetParallelTexts_L114(t) ==
    /\ At(t, "L114")
    /\ IF Iterate(Frame(t).english).raised
       THEN Return(t, Iterate(Frame(t).english)) /\ UNCHANGED frames
       ELSE /\ Bind(t, [Frame(t) EXCEPT !.english =
                          PyList(EnglishVerses(Iterate(Frame(t).english).val.l))])
            /\ Goto(t, "L117")
    /\ Sequential

\* get_parallel_texts, lines 117-118.
GetParallelTexts_L117(t) ==
    /\ At(t, "L117")
    /\ Bind(t, [Frame(t) EXCEPT !.pairs = <<>>])
    /\ Goto(t, "L120")
    /\ Sequential

\* get_parallel_texts, lines 120-125: one turn of the loop, or the return
\* when range(max_verses) is used up.
GetParallelTexts_L120(t) ==
    /\ At(t, "L120")
    /\ LET hebrew == Frame(t).hebrew.l
           english == Frame(t).english.l
           i == Len(Frame(t).pairs) + 1
       IN IF i <= MaxOf(Len(hebrew), Len(english))
          THEN /\ Bind(t, [Frame(t) EXCEPT !.pairs = Append(@,
                        PyTuple(<<IF i <= Len(hebrew) THEN hebrew[i] ELSE PyStr(<<>>),
                                  IF i <= Len(english) THEN english[i] ELSE PyStr(<<>>)>>))])
               /\ UNCHANGED threads
          ELSE /\ Return(t, Ok(PyList(Frame(t).pairs)))
               /\ UNCHANGED frames
    /\ Sequential

\* clean_text, lines 142-143.
CleanText_L142(t) ==
    /\ At(t, "L142")
    /\ IF ~Truthy(Frame(t).text) THEN Return(t, Ok(PyStr(<<>>))) ELSE Goto(t, "L146")
    /\ UNCHANGED frames
    /\ Sequential

\* clean_text, line 146.
CleanText_L146(t) ==
    /\ At(t, "L146")
    /\ IF Frame(t).text.t # "str"
       THEN Return(t, Raise("TypeError")) /\ UNCHANGED frames
       ELSE /\ Bind(t, [Frame(t) EXCEPT !.text = PyStr(SubSpaceRuns(Frame(t).text.s, 1))])
            /\ Goto(t, "L149")
    /\ Sequential

\* clean_text, line 149.
CleanText_L149(t) ==
    /\ At(t, "L149")
    /\ Bind(t, [Frame(t) EXCEPT !.text = PyStr(SubSpacePunct(Frame(t).text.s, 1))])
    /\ Goto(t, "L152")
    /\ Sequential

\* clean_text, lines 152-154.
CleanText_L152(t) ==
    /\ At(t, "L152")
    /\ Bind(t, [Frame(t) EXCEPT !.text = PyStr(Strip(Frame(t).text.s))])
    /\ Return(t, Ok(PyStr(Strip(Frame(t).text.s))))
    /\ Sequential

NextThreads ==
    \E t \in Threads :
        \/ Enter(t)
        \/ ExtractVerses_L30(t)
        \/ ExtractVerses_L34(t)
        \/ ExtractVerses_L47(t)
        \/ FormatHebrew_L71(t)
        \/ FormatHebrew_L75(t)
        \/ FormatHebrew_L82(t)
        \/ GetParallelTexts_L107(t)
        \/ GetParallelTexts_L113(t)
        \/ GetParallelTexts_L114(t)
        \/ GetParallelTexts_L117(t)
        \/ GetParallelTexts_L120(t)
        \/ CleanText_L142(t)
        \/ CleanText_L146(t)
        \/ CleanText_L149(t)
        \/ CleanText_L152(t)

SpecThreads == InitThreads /\ [][NextThreads]_vars

(***************************************************************************)
(* Calls of the SefariaClient methods.  A caller constructs a client and   *)
(* calls one method; the method builds its request, the library sends it   *)
(* and the method raises for an error status or returns the decoded body.  *)
(* The caller may pass the document get_text returned to extract_verses.   *)
(***************************************************************************)
InitClient ==
    /\ pc = "ready"
    /\ result = NoResult
    /\ prev = NoResult
    /\ hops = 0
    /\ threads = [t \in Threads |-> IdleThread]
    /\ frames = [t \in Threads |-> EmptyFrame]
    /\ client \in {SefariaClient(b, u) : b \in BaseUrls, u \in UserAgents}
    /\ wire = <<>>
    /\ aio = NoAio
    /\ \/ fn = "get_text" /\ args \in Refs \X TextKwargs
       \/ /\ fn \in {"get_versions", "get_manuscripts", "get_index",
                     "get_ref_topic_links", "get_translations", "get_counts",
                     "get_links", "get_link_summary", "get_related"}
          /\ args \in {<<r>> : r \in Refs}
       \/ /\ fn \in {"get_table_of_contents", "get_languages", "get_text_list"}
          /\ args = <<>>
       \/ fn = "get_random_text" /\ args \in OptionalStrs \X OptionalStrs
       \/ fn = "get_history" /\ args \in Refs \X {PyNone, PyStr(Chars("en"))} \X OptionalStrs
       \/ fn = "get_calendar_items" /\ args \in OptionalStrs \X OptionalStrs
       \/ fn = "get_calendar" /\ args \in {<<z>> : z \in OptionalStrs}
       \/ fn = "search" /\ args \in Queries \X SearchKwargs
       \/ fn = "get_ref_data" /\ args \in {<<r>> : r \in RefLists}

\* The rest of a method once its request is built: send it, then
\* response.raise_for_status() and return response.json().  A method that
\* raised before it sent anything ends there.
Perform(plan) ==
    /\ pc = "ready"
    /\ IF plan.raised
       THEN /\ result' = Raise(plan.exc)
            /\ UNCHANGED wire
       ELSE \E reply \in Replies :
               LET delivered == Transport(plan.request, reply)
               IN /\ wire' = Append(wire, [request |-> plan.request,
                                           reply |-> reply,
                                           attempts |-> delivered.attempts])
                  /\ result' = Finish(delivered)
    /\ pc' = "done"
    /\ UNCHANGED <<fn, args, prev, hops, threads, frames, client, aio>>

GetText == fn = "get_text" /\ Perform(get_text(client, args[1], args[2]))

GetVersions == fn = "get_versions" /\ Perform(get_versions(client, args[1]))

GetManuscripts == fn = "get_manuscripts" /\ Perform(get_manuscripts(client, args[1]))

GetRandomText ==
    fn = "get_random_text" /\ Perform(get_random_text(client, args[1], args[2]))

GetIndex == fn = "get_index" /\ Perform(get_index(client, args[1]))

GetTableOfContents ==
    fn = "get_table_of_contents" /\ Perform(get_table_of_contents(client))

GetRefTopicLinks ==
    fn = "get_ref_topic_links" /\ Perform(get_ref_topic_links(client, args[1]))

GetTranslations == fn = "get_translations" /\ Perform(get_translations(client, args[1]))

GetLanguages == fn = "get_languages" /\ Perform(get_languages(client))

Search == fn = "search" /\ Perform(search(client, args[1], args[2]))

GetCounts == fn = "get_counts" /\ Perform(get_counts(client, args[1]))

GetTextList == fn = "get_text_list" /\ Perform(get_text_list(client))

GetLinks == fn = "get_links" /\ Perform(get_links(client, args[1]))

GetLinkSummary == fn = "get_link_summary" /\ Perform(get_link_summary(client, args[1]))

GetRelated == fn = "get_related" /\ Perform(get_related(client, args[1]))

GetHistory ==
    fn = "get_history" /\ Perform(get_history(client, args[1], args[2], args[3]))

GetCalendarItems ==
    fn = "get_calendar_items" /\ Perform(get_calendar_items(client, args[1], args[2]))

GetCalendar == fn = "get_calendar" /\ Perform(get_calendar(client, args[1]))

GetRefData == fn = "get_ref_data" /\ Perform(get_ref_data(client, args[1]))

\* The caller passes the document get_text returned to extract_verses; an
\* exception of get_text has left the caller before this statement.
ExtractFetched ==
    /\ pc = "done" /\ fn = "get_text"
    /\ ~result.raised
    /\ fn' = "extract_verses"
    /\ args' = <<result.val>>
    /\ prev' = result
    /\ hops' = hops + 1
    /\ pc' = "ready"
    /\ UNCHANGED <<result, threads, frames, client, wire, aio>>

NextClient ==
    \/ GetText
    \/ GetVersions
    \/ GetManuscripts
    \/ GetRandomText
    \/ GetIndex
    \/ GetTableOfContents
    \/ GetRefTopicLinks
    \/ GetTranslations
    \/ GetLanguages
    \/ Search
    \/ GetCounts
    \/ GetTextList
    \/ GetLinks
    \/ GetLinkSummary
    \/ GetRelated
    \/ GetHistory
    \/ GetCalendarItems
    \/ GetCalendar
    \/ GetRefData
    \/ ExtractFetched
    \/ CallExtractVerses

SpecClient == InitClient /\ [][NextClient]_vars

(***************************************************************************)
(* The async client of the async tests (MockAsyncSefariaClient).  A        *)
(* coroutine makes a client, calls its methods and runs `async with        *)
(* client:` around a body of calls.  aio.session is 0 for None and else    *)
(* the index of the session object in aio.sessions, which holds "open" or  *)
(* "closed" for every session made.  aio.call is the method the coroutine  *)
(* is awaiting ("" between calls) and aio.tasks the get_text_async         *)
(* coroutines of that call: "new" before its first statement, "sent" while *)
(* the request is awaited (line 35), "reading" while response.json() is    *)
(* awaited (line 37), and else what it returned ("ok") or raised.          *)
(* aio.results is what the last call gave its caller, aio.exc the          *)
(* exception that is leaving the body ("" when there is none), and         *)
(* aio.outside the number of calls made outside the block.                 *)
(***************************************************************************)
InitAsync ==
    /\ fn = "" /\ args = <<>> /\ pc = "async"
    /\ result = NoResult /\ prev = NoResult /\ hops = 0
    /\ threads = [t \in Threads |-> IdleThread]
    /\ frames = [t \in Threads |-> EmptyFrame]
    /\ client = NoClient
    /\ wire = <<>>
    /\ aio \in {[pc |-> "start", session |-> 0, sessions |-> <<>>, body |-> b,
                 exc |-> "", call |-> "", tasks |-> <<>>, results |-> <<>>,
                 outside |-> 0] : b \in BlockBodies}

AsyncOnly == UNCHANGED <<fn, args, pc, result, prev, hops, threads, frames, client, wire>>

\* __aenter__ (lines 21-23): self.session = aiohttp.ClientSession().
AEnter ==
    /\ aio.pc = "start" /\ aio.call = ""
    /\ aio' = [aio EXCEPT !.sessions = Append(@, "open"),
                          !.session = Len(aio.sessions) + 1,
                          !.pc = "body"]
    /\ AsyncOnly

\* The coroutine may call `name` now: as the next call of the body, or
\* outside the block.
MayCall(name) ==
    /\ aio.call = "" /\ aio.exc = ""
    /\ \/ aio.pc = "body" /\ aio.body # <<>> /\ Head(aio.body) = name
       \/ aio.pc \in {"start", "exited"} /\ aio.outside < MaxRequests

\* The call the coroutine awaited has ended.
CallEnded(self) ==
    [self EXCEPT !.call = "", !.tasks = <<>>,
                 !.body = IF self.pc = "body" THEN Tail(@) ELSE @,
                 !.outside = IF self.pc = "body" THEN @ ELSE @ + 1]

\* get_text_async up to its first await (lines 31-35): RuntimeError
\* without a session; session.get of a closed session raises RuntimeError;
\* else the request is sent and awaited.
get_text_async(self) ==
    IF self.session = 0 THEN "RuntimeError"
    ELSE IF self.sessions[self.session] = "closed" THEN "RuntimeError"
    ELSE "sent"

\* await client.get_text_async(ref): the coroutine runs at once, up to its
\* first await.
GetTextAsync ==
    /\ MayCall("get_text_async")
    /\ aio' = [aio EXCEPT !.call = "get_text_async",
                          !.tasks = <<get_text_async(aio)>>]
    /\ AsyncOnly

\* fetch_multiple_texts up to its await (lines 41-42): one get_text_async
\* coroutine per reference, none of them started, handed to gather.
FetchMultipleTexts ==
    /\ MayCall("fetch_multiple_texts")
    /\ \E refs \in 0..MaxRequests :
          aio' = [aio EXCEPT !.call = "fetch_multiple_texts",
                            !.tasks = [i \in 1..refs |-> "new"]]
    /\ AsyncOnly

\* The event loop starts the tasks of gather in the order they were made;
\* each runs up to its first await.
StartTask ==
    /\ \E i \in 1..Len(aio.tasks) :
          /\ aio.tasks[i] = "new"
          /\ \A j \in 1..(i - 1) : aio.tasks[j] # "new"
          /\ aio' = [aio EXCEPT !.tasks[i] = get_text_async(aio)]
    /\ AsyncOnly

\* Lines 35-37: the awaited request of a task ends, in any order among the
\* tasks; it raises, or response.raise_for_status() raises, or the task
\* goes on to await response.json().
Respond ==
    /\ \E i \in 1..Len(aio.tasks) :
          /\ aio.tasks[i] = "sent"
          /\ \E outcome \in RequestOutcomes :
                aio' = [aio EXCEPT !.tasks[i] = IF outcome = "ok" THEN "reading"
                                                ELSE outcome]
    /\ AsyncOnly

\* Line 37: response.json() of a task ends: the document is returned, or
\* an exception is raised.
ReadJson ==
    /\ \E i \in 1..Len(aio.tasks) :
          /\ aio.tasks[i] = "reading"
          /\ \E outcome \in RequestOutcomes :
                aio' = [aio EXCEPT !.tasks[i] = outcome]
    /\ AsyncOnly

Running == {"new", "sent", "reading"}

\* get_text_async has ended: its caller has the document; or the exception,
\* which the caller catches (pytest.raises) or, in the body, lets leave the
\* block.
ReturnText ==
    /\ aio.call = "get_text_async"
    /\ aio.tasks[1] \notin Running
    /\ \E caught \in BOOLEAN :
          aio' = IF aio.tasks[1] = "ok" \/ caught \/ aio.pc # "body"
                 THEN [CallEnded(aio) EXCEPT !.results = aio.tasks]
                 ELSE [aio EXCEPT !.call = "", !.tasks = <<>>,
                                  !.exc = aio.tasks[1]]
    /\ AsyncOnly

\* Line 42: gather(*tasks, return_exceptions=True) returns, when every task
\* has ended, what each returned or raised, in the order of the references.
Gathered ==
    /\ aio.call = "fetch_multiple_texts"
    /\ \A i \in 1..Len(aio.tasks) : aio.tasks[i] \notin Running
    /\ aio' = [CallEnded(aio) EXCEPT !.results = aio.tasks]
    /\ AsyncOnly

\* __aexit__ (lines 25-27), called when the body has ended or an exception
\* is leaving it: if self.session: await self.session.close().
AExit_OnSuccessOnly ==
    /\ aio.pc = "body" /\ aio.call = "" /\ (aio.body = <<>> \/ aio.exc # "")
    /\ aio' = [aio EXCEPT
                 !.sessions = IF aio.session # 0 /\ aio.exc = ""
                              THEN [@ EXCEPT ![aio.session] = "closed"] ELSE @,
                 !.pc = "exited"]
    /\ AsyncOnly

AExit ==
    /\ aio.pc = "body" /\ aio.call = "" /\ (aio.body = <<>> \/ aio.exc # "")
    /\ aio' = [aio EXCEPT
                 !.sessions = IF aio.session # 0
                              THEN [@ EXCEPT ![aio.session] = "closed"] ELSE @,
                 !.pc = "exited"]
    /\ AsyncOnly

NextAsync ==
    \/ AEnter
    \/ GetTextAsync
    \/ FetchMultipleTexts
    \/ StartTask
    \/ Respond
    \/ ReadJson
    \/ ReturnText
    \/ Gathered
    \/ AExit

SpecAsync == InitAsync /\ [][NextAsync]_vars

(***************************************************************************)
(* Vocabulary of the properties.                                           *)
(***************************************************************************)
Done(f) == pc = "done" /\ fn = f

\* Null, empty or whitespace-only.
IsBlank(v) == v.t = "none" \/ (v.t = "str" /\ \A i \in 1..Len(v.s) : IsSpace(v.s[i]))

NotBlank(v) == ~IsBlank(v)

\* The verses an argument of get_parallel_texts stands for.
ItemsOf(x) == IF x.t = "str" THEN <<x>> ELSE x.l

IsVerseInput(x) == x.t \in {"str", "list"}

CountOf(c, s) == Cardinality({i \in 1..Len(s) : s[i] = c})

Larger(a, b) == IF a >= b THEN a ELSE b

EmptyStr == PyStr(<<>>)

EmptyList == PyList(<<>>)

\* The subsequence of s at the indexes that satisfy Keep.
Pick(s, Keep(_)) ==
    LET idx == SelectSeq([i \in 1..Len(s) |-> i], Keep)
    IN [k \in 1..Len(idx) |-> s[idx[k]]]

\* Step 1 of the cleaner: of every maximal run of whitespace only the first
\* character stays, as a space.
CollapseRuns(s) ==
    LET first == Pick([i \in 1..Len(s) |-> i],
                      LAMBDA i : ~IsSpace(s[i]) \/ i = 1 \/ ~IsSpace(s[i - 1]))
    IN [k \in 1..Len(first) |-> IF IsSpace(s[first[k]]) THEN 32 ELSE s[first[k]]]

\* Step 2 of the cleaner: whitespace goes when only whitespace separates it
\* from a following punctuation mark.
DropSpaceBeforePunct(s) ==
    Pick(s, LAMBDA i : ~(/\ IsSpace(s[i])
                         /\ \E j \in (i + 1)..Len(s) :
                               /\ s[j] \in {46, 44, 59, 58, 33, 63}
                               /\ \A k \in i..(j - 1) : IsSpace(s[k])))

\* Step 3 of the cleaner: from the first to the last non-whitespace character.
Trimmed(s) ==
    LET solid == {i \in 1..Len(s) : ~IsSpace(s[i])}
    IN IF solid = {} THEN <<>>
       ELSE SubSeq(s, CHOOSE i \in solid : \A j \in solid : i <= j,
                      CHOOSE i \in solid : \A j \in solid : i >= j)

(***************************************************************************)
(* Properties.                                                             *)
(***************************************************************************)
\* C1: get_parallel_texts drops every null, empty or whitespace-only
\* element before pairing, so the number of pairs is the larger of the two
\* counts of the elements that are none of these.
C1_BlankVersesTakeNoPosition ==
    (Done("get_parallel_texts") /\ IsVerseInput(args[1]) /\ IsVerseInput(args[2]))
    => /\ ~result.raised
       /\ Len(result.val.l) =
             Larger(Len(SelectSeq(ItemsOf(args[1]), NotBlank)),
                    Len(SelectSeq(ItemsOf(args[2]), NotBlank)))

\* C2: for a list under `text`, extract_verses returns the trimmed string
\* representations of the non-null elements whose trimmed representation
\* is non-empty, in order; every integer is kept.
C2_ListVersesStringified ==
    (/\ Done("extract_verses") /\ args[1].t = "dict"
     /\ HasKey(args[1], "text") /\ GetKey(args[1], "text").t = "list")
    => LET kept == SelectSeq(GetKey(args[1], "text").l,
                             LAMBDA v : v.t # "none" /\ Trimmed(ToStr(v)) # <<>>)
       IN result = Ok(PyList([i \in 1..Len(kept) |-> PyStr(Trimmed(ToStr(kept[i])))]))

\* C3: extract_verses never raises: every call returns a sequence.
C3_ExtractVersesNeverRaises ==
    Done("extract_verses") => (~result.raised /\ result.val.t = "list")

\* C4: clean_text, format_hebrew and get_parallel_texts never raise, and a
\* null or wrong-typed argument gives the empty string (clean_text,
\* format_hebrew) or the empty sequence (get_parallel_texts).
C4_WrongTypesGiveEmpty ==
    /\ (Done("clean_text") \/ Done("format_hebrew"))
       => /\ ~result.raised
          /\ args[1].t # "str" => result.val = EmptyStr
    /\ Done("get_parallel_texts")
       => /\ ~result.raised
          /\ (~IsVerseInput(args[1]) \/ ~IsVerseInput(args[2]))
             => result.val = EmptyList

\* C5: the key that is present first in the order text, he, versions
\* decides the result alone: the values under the later keys do not matter,
\* and a null, empty or unusable value under it gives the empty sequence.
C5_KeyPrecedence ==
    (Done("extract_verses") /\ args[1].t = "dict")
    => LET doc == args[1]
           first == IF HasKey(doc, "text") THEN "text" ELSE "he"
           value == GetKey(doc, first)
       IN (HasKey(doc, "text") \/ HasKey(doc, "he"))
          => /\ result = extract_verses(PyDict(<<<<first, value>>>>))
             /\ (value.t \notin {"str", "list"} \/ ~Truthy(value))
                => result = Ok(EmptyList)

C5_Witness ==
    /\ Done("extract_verses") /\ args[1].t = "dict"
    /\ HasKey(args[1], "text") /\ GetKey(args[1], "text") = PyNone
    /\ HasKey(args[1], "he") /\ Truthy(GetKey(args[1], "he"))
    /\ HasKey(args[1], "versions") /\ Truthy(GetKey(args[1], "versions"))
    /\ result = Ok(EmptyList)

\* C6: get_parallel_texts returns exactly max(m, n) pairs for m source and
\* n target elements that pass the filter; beyond a side's filtered length
\* that side is the empty string; no pairs exactly when m = n = 0.
C6_PairCount ==
    (Done("get_parallel_texts") /\ IsVerseInput(args[1]) /\ IsVerseInput(args[2]))
    => LET m == Len(SelectSeq(ItemsOf(args[1]), Truthy))
           n == Len(SelectSeq(ItemsOf(args[2]), Truthy))
           pairs == result.val.l
       IN /\ ~result.raised
          /\ Len(pairs) = Larger(m, n)
          /\ \A i \in 1..Len(pairs) :
                /\ i > m => pairs[i].l[1] = EmptyStr
                /\ i > n => pairs[i].l[2] = EmptyStr
          /\ (pairs = <<>>) <=> (m = 0 /\ n = 0)

C6_Witness ==
    /\ Done("get_parallel_texts")
    /\ args[1].t = "list" /\ Len(SelectSeq(args[1].l, Truthy)) = 3
    /\ args[2].t = "list" /\ Len(SelectSeq(args[2].l, Truthy)) = 1
    /\ Len(result.val.l) = 3
    /\ result.val.l[3].l[2] = EmptyStr

\* C7: pair i is (format_hebrew(H'[i]), trim(str(E'[i]))) for the filtered
\* sequences H' and E'; the target side gets no marker; for equal-length
\* sequences without empty elements pair i is (format_hebrew(H[i]),
\* trim(E[i])).
C7_PositionalPairing ==
    (Done("get_parallel_texts") /\ args[1].t = "list" /\ args[2].t = "list")
    => LET H == SelectSeq(args[1].l, Truthy)
           E == SelectSeq(args[2].l, Truthy)
           pairs == result.val.l
       IN /\ ~result.raised
          /\ Len(pairs) >= Len(H) /\ Len(pairs) >= Len(E)
          /\ \A i \in 1..Len(H) :
                pairs[i].l[1] = format_hebrew(PyStr(ToStr(H[i]))).val
          /\ \A i \in 1..Len(E) :
                /\ pairs[i].l[2] = PyStr(Trimmed(ToStr(E[i])))
                /\ CountOf(RLM, pairs[i].l[2].s) = CountOf(RLM, ToStr(E[i]))
          /\ (Len(H) = Len(args[1].l) /\ Len(E) = Len(args[2].l) /\ Len(H) = Len(E))
             => /\ Len(pairs) = Len(args[1].l)
                /\ \A i \in 1..Len(pairs) :
                      pairs[i].l = <<format_hebrew(PyStr(ToStr(args[1].l[i]))).val,
                                     PyStr(Trimmed(ToStr(args[2].l[i])))>>

\* An empty source verse between two others: the third source verse is
\* paired with the second target verse.
C7_Witness ==
    /\ Done("get_parallel_texts")
    /\ args[1] = PyList(<<PyStr(<<1488>>), PyStr(<<>>), PyStr(<<RLM, 1489, 32>>)>>)
    /\ args[2] = PyList(<<PyStr(<<97>>), PyStr(<<32, 98>>), PyInt(7)>>)
    /\ result.val.l[2].l = <<PyStr(<<RLM, 1489>>), PyStr(<<98>>)>>
    /\ result.val.l[3].l = <<EmptyStr, PyStr(<<55>>)>>

\* C8: format_hebrew applied to its own result returns that result.
C8_FormatHebrewIdempotent ==
    (Done("format_hebrew") /\ hops >= 1) => result = prev

\* The input was space, marker, alef.
C8_Witness ==
    /\ Done("format_hebrew") /\ hops = 1
    /\ args[1] = PyStr(<<RLM, 32, RLM, 1488>>)
    /\ result = Ok(PyStr(<<RLM, 32, RLM, 1488>>))

\* C9: for a non-empty string the result of format_hebrew begins with the
\* marker and has as many markers as the input, plus one exactly when the
\* input does not begin with the marker.
C9_MarkerAddedOnce ==
    (Done("format_hebrew") /\ args[1].t = "str" /\ args[1].s # <<>>)
    => /\ ~result.raised
       /\ result.val.s # <<>> /\ result.val.s[1] = RLM
       /\ CountOf(RLM, result.val.s) =
             CountOf(RLM, args[1].s) + (IF args[1].s[1] = RLM THEN 0 ELSE 1)

C9_Witness ==
    /\ Done("format_hebrew") /\ hops = 0
    /\ args[1] = PyStr(<<1488, RLM>>)
    /\ result = Ok(PyStr(<<RLM, 1488, RLM>>))

\* C10: for a non-empty string clean_text is: collapse every maximal run of
\* whitespace into one space, then delete the whitespace before each
\* punctuation mark, then trim.
C10_CleanTextIsThreeSteps ==
    (Done("clean_text") /\ args[1].t = "str" /\ args[1].s # <<>>)
    => result = Ok(PyStr(Trimmed(DropSpaceBeforePunct(CollapseRuns(args[1].s)))))

\* " .\na" gives ". a".
C10_Witness ==
    /\ Done("clean_text")
    /\ args[1] = PyStr(<<32, 46, 10, 97>>)
    /\ result = Ok(PyStr(<<46, 32, 97>>))

\* C11: the result of clean_text is canonical: its only whitespace is the
\* ASCII space, no two spaces are adjacent, no space stands before one of
\* . , ; : ! ? and it neither begins nor ends with whitespace.
C11_CleanTextCanonical ==
    (Done("clean_text") /\ ~result.raised)
    => LET r == result.val.s
       IN /\ result.val.t = "str"
          /\ \A i \in 1..Len(r) : IsSpace(r[i]) => r[i] = 32
          /\ \A i \in 1..(Len(r) - 1) :
                r[i] = 32 => (r[i + 1] # 32 /\ r[i + 1] \notin {46, 44, 59, 58, 33, 63})
          /\ r # <<>> => (~IsSpace(r[1]) /\ ~IsSpace(r[Len(r)]))

\* "a\n ." gives "a.": two whitespace characters before the mark.
C11_Witness ==
    /\ Done("clean_text")
    /\ args[1] = PyStr(<<97, 10, 32, 46>>)
    /\ result = Ok(PyStr(<<97, 46>>))

\* The maximal runs of characters other than \n and \r, in order.
LinesOf(s) ==
    LET starts == SelectSeq([i \in 1..Len(s) |-> i],
                            LAMBDA i : /\ s[i] \notin {10, 13}
                                       /\ (i = 1 \/ s[i - 1] \in {10, 13}))
        EndOf(i) == CHOOSE j \in i..Len(s) :
                        /\ \A k \in i..j : s[k] \notin {10, 13}
                        /\ (j = Len(s) \/ s[j + 1] \in {10, 13})
    IN [k \in 1..Len(starts) |-> SubSeq(s, starts[k], EndOf(starts[k]))]

\* C12: for a single string under `text`, extract_verses returns one verse
\* per non-blank line, trimmed, in order; blank and whitespace-only lines
\* and leading or trailing line breaks give no verse.
C12_StringSplitIntoLines ==
    (/\ Done("extract_verses") /\ args[1].t = "dict"
     /\ HasKey(args[1], "text") /\ GetKey(args[1], "text").t = "str")
    => LET solid == SelectSeq(LinesOf(GetKey(args[1], "text").s),
                              LAMBDA line : Trimmed(line) # <<>>)
       IN result = Ok(PyList([k \in 1..Len(solid) |-> PyStr(Trimmed(solid[k]))]))

\* "\ra\n\r " gives ["a"].
C12_Witness ==
    /\ Done("extract_verses") /\ args[1].t = "dict"
    /\ HasKey(args[1], "text")
    /\ GetKey(args[1], "text") = PyStr(<<13, 97, 10, 13>>)
    /\ result = Ok(PyList(<<PyStr(<<97>>)>>))

\* C13: without `text` and `he`, only the `text` field of the first record
\* of `versions` counts: no `versions`, an empty `versions` or a first
\* record without `text` gives the empty sequence, and the later records do
\* not matter.
C13_FirstVersionOnly ==
    (/\ Done("extract_verses") /\ args[1].t = "dict"
     /\ ~HasKey(args[1], "text") /\ ~HasKey(args[1], "he"))
    => /\ ~HasKey(args[1], "versions") => result = Ok(EmptyList)
       /\ HasKey(args[1], "versions")
          => LET versions == GetKey(args[1], "versions")
             IN /\ (versions.t = "list" /\ versions.l = <<>>) => result = Ok(EmptyList)
                /\ (versions.t = "list" /\ versions.l # <<>> /\ versions.l[1].t = "dict")
                   => /\ ~HasKey(versions.l[1], "text") => result = Ok(EmptyList)
                      /\ HasKey(versions.l[1], "text")
                         => result = extract_verses(
                                PyDict(<<<<"text", GetKey(versions.l[1], "text")>>>>))
                      /\ result = extract_verses(
                                PyDict(<<<<"versions", PyList(<<versions.l[1]>>)>>>>))

\* Two records: the verses are those of the first.
C13_Witness ==
    /\ Done("extract_verses") /\ args[1].t = "dict"
    /\ ~HasKey(args[1], "text") /\ ~HasKey(args[1], "he")
    /\ HasKey(args[1], "versions")
    /\ GetKey(args[1], "versions") =
          PyList(<<VersionRecord(PyStr(<<120, 10, 121>>)),
                   VersionRecord(PyList(<<PyStr(<<122>>)>>))>>)
    /\ result = Ok(PyList(<<PyStr(<<120>>), PyStr(<<121>>)>>))

\* C14: extract_verses returns the empty sequence for an input that is not
\* a mapping and for a mapping without the keys text, he and versions.
C14_NoDocumentNoVerses ==
    (/\ Done("extract_verses")
     /\ \/ args[1].t # "dict"
        \/ (~HasKey(args[1], "text") /\ ~HasKey(args[1], "he")
            /\ ~HasKey(args[1], "versions")))
    => result = Ok(EmptyList)

C14_Witness ==
    /\ Done("extract_verses")
    /\ args[1] = PyStr(<<97>>)
    /\ result = Ok(EmptyList)

\* The value the verses of a well-formed document come from.
SourceOf(doc) ==
    IF HasKey(doc, "text") THEN GetKey(doc, "text")
    ELSE IF HasKey(doc, "he") THEN GetKey(doc, "he")
    ELSE IF /\ HasKey(doc, "versions")
            /\ GetKey(doc, "versions").t \in {"list", "tuple"}
            /\ GetKey(doc, "versions").l # <<>>
            /\ GetKey(doc, "versions").l[1].t = "dict"
            /\ HasKey(GetKey(doc, "versions").l[1], "text")
         THEN GetKey(GetKey(doc, "versions").l[1], "text")
    ELSE PyNone

\* The strings occur in s one after the other, from index `from` on.
RECURSIVE OccurInOrder(_, _, _)
OccurInOrder(s, from, strs) ==
    IF strs = <<>> THEN TRUE
    ELSE \E p \in from..(Len(s) - Len(Head(strs)) + 1) :
            /\ SubSeq(s, p, p + Len(Head(strs)) - 1) = Head(strs)
            /\ OccurInOrder(s, p + Len(Head(strs)), Tail(strs))

\* C15: every element extract_verses returns is a non-empty string equal to
\* its own trim, and the elements keep the order of the source elements
\* or lines they come from.
C15_VersesTrimmedInOrder ==
    (Done("extract_verses") /\ ~result.raised)
    => LET verses == result.val.l
           source == IF args[1].t = "dict" THEN SourceOf(args[1]) ELSE PyNone
       IN /\ result.val.t = "list"
          /\ \A k \in 1..Len(verses) :
                /\ verses[k].t = "str"
                /\ verses[k].s # <<>>
                /\ Trimmed(verses[k].s) = verses[k].s
          /\ source.t = "list"
             => \E chosen \in SUBSET (1..Len(source.l)) :
                   LET from == Pick(source.l, LAMBDA i : i \in chosen)
                   IN /\ Len(from) = Len(verses)
                      /\ \A k \in 1..Len(verses) :
                            verses[k].s = Trimmed(ToStr(from[k]))
          /\ source.t = "str"
             => OccurInOrder(source.s, 1, [k \in 1..Len(verses) |-> verses[k].s])

\* [" a ", None, 12] gives ["a", "12"].
C15_Witness ==
    /\ Done("extract_verses") /\ args[1].t = "dict"
    /\ HasKey(args[1], "text")
    /\ GetKey(args[1], "text") = PyList(<<PyStr(<<32, 97, 32>>), PyNone, PyInt(12)>>)
    /\ result = Ok(PyList(<<PyStr(<<97>>), PyStr(<<49, 50>>)>>))

\* C16: a string argument of get_parallel_texts counts as the one-element
\* sequence holding it, on either side or on both.
C16_StringIsOneElementList ==
    Done("get_parallel_texts")
    => LET Listed(x) == IF x.t = "str" THEN PyList(<<x>>) ELSE x
       IN /\ result = get_parallel_texts(Listed(args[1]), args[2])
          /\ result = get_parallel_texts(args[1], Listed(args[2]))
          /\ result = get_parallel_texts(Listed(args[1]), Listed(args[2]))

\* get_parallel_texts(" " + alef, "a ") is one pair.
C16_Witness ==
    /\ Done("get_parallel_texts")
    /\ args = <<PyStr(<<32, 1488>>), PyStr(<<97, 32>>)>>
    /\ result = Ok(PyList(<<PyTuple(<<PyStr(<<RLM, 32, 1488>>), PyStr(<<97>>)>>)>>))

\* C17: clean_text and format_hebrew return "" for None and for ""; and
\* clean_text returns "" for a whitespace-only string.
C17_EmptyForNullAndBlank ==
    /\ ((Done("clean_text") \/ Done("format_hebrew")) /\ args[1] \in {PyNone, EmptyStr})
       => result = Ok(EmptyStr)
    /\ (/\ Done("clean_text") /\ args[1].t = "str"
        /\ \A i \in 1..Len(args[1].s) : IsSpace(args[1].s[i]))
       => result = Ok(EmptyStr)

\* clean_text(" \n ") is "".
C17_Witness ==
    /\ Done("clean_text")
    /\ args[1] = PyStr(<<32, 10, 32>>)
    /\ result = Ok(EmptyStr)

\* C18: for a non-empty string x, format_hebrew(x) is trim(y), y being x if
\* x begins with the marker and the marker followed by x otherwise; the
\* trim removes whitespace only; apart from the added marker the result is
\* x without its trailing whitespace.
C18_FormatHebrewIsMarkThenTrim ==
    (Done("format_hebrew") /\ args[1].t = "str" /\ args[1].s # <<>>)
    => LET x == args[1].s
           y == IF x[1] = RLM THEN x ELSE <<RLM>> \o x
           r == result.val.s
           body == IF x[1] = RLM THEN r ELSE Tail(r)
       IN /\ result = Ok(PyStr(Trimmed(y)))
          /\ Len(body) <= Len(x)
          /\ body = SubSeq(x, 1, Len(body))
          /\ \A i \in (Len(body) + 1)..Len(x) : IsSpace(x[i])

\* alef, marker, space gives marker, alef, marker.
C18_Witness ==
    /\ Done("format_hebrew") /\ hops = 0
    /\ args[1] = PyStr(<<1488, RLM, 32>>)
    /\ result = Ok(PyStr(<<RLM, 1488, RLM>>))

\* What a call returns when nothing else runs.
RunAlone(f, a) ==
    CASE f = "extract_verses" -> extract_verses(a[1])
      [] f = "format_hebrew" -> format_hebrew(a[1])
      [] f = "get_parallel_texts" -> get_parallel_texts(a[1], a[2])
      [] f = "clean_text" -> clean_text(a[1])

\* C19: the four functions leave their arguments unchanged: no statement
\* of any call changes the objects a caller passed, and a statement of a
\* call changes nothing but that call's own names and outcome.
C19_ArgumentsUnchanged ==
    [][/\ \A t \in Threads :
             /\ threads'[t].a = threads[t].a
             /\ threads'[t].fn = threads[t].fn
       /\ \E t \in Threads :
             /\ \A u \in Threads \ {t} : threads'[u] = threads[u] /\ frames'[u] = frames[u]
       /\ <<fn, args, pc, result, prev, hops, client, wire, aio>>'
             = <<fn, args, pc, result, prev, hops, client, wire, aio>>
      ]_vars

\* A call has returned; its name hebrew holds the filtered and formatted
\* list, the list that was passed still holds its three verses.
C19_Witness ==
    \E t \in Threads :
        /\ threads[t].pc = "done" /\ threads[t].fn = "get_parallel_texts"
        /\ threads[t].a[1] =
              PyList(<<PyStr(<<1488>>), PyStr(<<>>), PyStr(<<RLM, 1489, 32>>)>>)
        /\ frames[t].hebrew = PyList(<<PyStr(<<RLM, 1488>>), PyStr(<<RLM, 1489>>)>>)
        /\ ~threads[t].out.raised

\* C20: under every interleaving of the statements of concurrent calls,
\* each call returns what it returns when run alone.
C20_ConcurrentCallsIndependent ==
    \A t \in Threads :
        threads[t].pc = "done" => threads[t].out = RunAlone(threads[t].fn, threads[t].a)

\* Thread 1 has returned its pairs while thread 2 is inside the loop of
\* another call of get_parallel_texts.
C20_Witness ==
    /\ threads[1].pc = "done" /\ threads[1].fn = "get_parallel_texts"
    /\ Len(threads[1].out.val.l) = 2
    /\ threads[2].pc = "L120" /\ threads[2].fn = "get_parallel_texts"
    /\ Len(frames[2].pairs) = 1
    /\ threads[2].a # threads[1].a

\* C23: format_hebrew does not depend on the whitespace around its input:
\* format_hebrew(x) = format_hebrew(trim(x)) for every string x; a
\* whitespace-only x gives the empty string; leading whitespace of x does
\* not remain between the marker and the text.
C23_SurroundingWhitespaceIgnored ==
    (Done("format_hebrew") /\ args[1].t = "str")
    => LET x == args[1].s
           r == result.val.s
       IN /\ result = format_hebrew(PyStr(Trimmed(x)))
          /\ (\A i \in 1..Len(x) : IsSpace(x[i])) => result = Ok(EmptyStr)
          /\ (x # <<>> /\ x[1] # RLM /\ Len(r) >= 2) => ~IsSpace(r[2])

\* C24: no verse returned by extract_verses holds a line break (\n or \r),
\* whether the verses come from a single string or from a sequence.
C24_VersesAreSingleLines ==
    (Done("extract_verses") /\ ~result.raised)
    => \A k \in 1..Len(result.val.l) :
          \A i \in 1..Len(result.val.l[k].s) : result.val.l[k].s[i] \notin {10, 13}

\* C25: get_parallel_texts applied to the verses S and T extracted from two
\* documents returns max(len S, len T) pairs; the target side of pair i is
\* T[i]; the source side of pair i is S[i] behind the marker, or S[i] itself
\* when it begins with the marker.  S is the sequence the caller kept from
\* the extraction of the Hebrew text, and the case is the one where that
\* sequence is what get_parallel_texts is given.
C25_ExtractedVersesPairUnfiltered ==
    (Done("get_parallel_texts") /\ hops >= 1 /\ prev = Ok(args[1]))
    => LET S == args[1].l
           T == args[2].l
           pairs == result.val.l
       IN /\ ~result.raised
          /\ Len(pairs) = Larger(Len(S), Len(T))
          /\ \A i \in 1..Len(T) : pairs[i].l[2] = T[i]
          /\ \A i \in 1..Len(S) :
                pairs[i].l[1] = IF S[i].s # <<>> /\ S[i].s[1] = RLM THEN S[i]
                                ELSE PyStr(<<8207>> \o S[i].s)

\* Two source verses, the second with the marker, and three target verses.
C25_Witness ==
    /\ Done("get_parallel_texts") /\ hops = 1
    /\ prev = Ok(args[1])
    /\ args[1] = PyList(<<PyStr(<<1488>>), PyStr(<<RLM, 1489>>)>>)
    /\ args[2] = PyList(<<PyStr(<<120>>), PyStr(<<121>>), PyStr(<<122>>)>>)
    /\ result = Ok(PyList(<<PyTuple(<<PyStr(<<RLM, 1488>>), PyStr(<<120>>)>>),
                            PyTuple(<<PyStr(<<RLM, 1489>>), PyStr(<<121>>)>>),
                            PyTuple(<<EmptyStr, PyStr(<<122>>)>>)>>))

\* C26: extract_verses applied to {"text": verses}, verses being what
\* extract_verses returned for a document, returns the same verses in the
\* same order.
C26_ExtractVersesNormalForm ==
    (Done("extract_verses") /\ hops >= 1) => result = prev

\* The verses "a" and "12" are extracted again.
C26_Witness ==
    /\ Done("extract_verses") /\ hops = 1
    /\ args[1] = PyDict(<<<<"text", PyList(<<PyStr(<<97>>), PyStr(<<49, 50>>)>>)>>>>)
    /\ result = Ok(PyList(<<PyStr(<<97>>), PyStr(<<49, 50>>)>>))

\* C27: clean_text applied to its own result returns that result.
C27_CleanTextIdempotent ==
    (Done("clean_text") /\ hops >= 1) => result = prev

\* ",. a" is cleaned again: it begins with two punctuation marks.
C27_Witness ==
    /\ Done("clean_text") /\ hops = 1
    /\ args[1] = PyStr(<<44, 46, 32, 97>>)
    /\ result = Ok(PyStr(<<44, 46, 32, 97>>))

\* The indexes of the non-whitespace characters of s, in order.
SolidAt(s) == SelectSeq([i \in 1..Len(s) |-> i], LAMBDA i : ~IsSpace(s[i]))

\* C28: clean_text changes whitespace only: the non-whitespace characters
\* of the result are those of the input, in order; and two of them that
\* whitespace separates in the input are separated by exactly one space in
\* the result unless the second is one of . , ; : ! ?
C28_OnlyWhitespaceChanges ==
    (Done("clean_text") /\ args[1].t = "str")
    => LET x == args[1].s
           r == result.val.s
           px == SolidAt(x)
           pr == SolidAt(r)
       IN /\ ~result.raised
          /\ Len(pr) = Len(px)
          /\ \A k \in 1..Len(px) : r[pr[k]] = x[px[k]]
          /\ \A k \in 1..(Len(px) - 1) :
                (px[k + 1] > px[k] + 1 /\ x[px[k + 1]] \notin {46, 44, 59, 58, 33, 63})
                => (pr[k + 1] = pr[k] + 2 /\ r[pr[k] + 1] = 32)

\* ", \na" gives ", a": the space after the mark stays, as one space.
C28_Witness ==
    /\ Done("clean_text") /\ hops = 0
    /\ args[1] = PyStr(<<44, 32, 10, 97>>)
    /\ result = Ok(PyStr(<<44, 32, 97>>))

\* The last request that went out, with the reply of the service.
LastExchange == wire[Len(wire)]

\* The service could not be reached, or the last attempt was answered with
\* a 4xx or 5xx status: 503 on each of the five attempts, or the final
\* status.
FetchFailed(reply) ==
    reply.down \/ reply.busy > 4 \/ reply.status \in 400..599

\* C21: get_text and search end in exactly one of two outcomes, the decoded
\* document or an exception; after an HTTP error status or a transport
\* error the exception reaches the caller and no document is returned, so
\* no extraction runs on a failed fetch.
C21_DocumentOrException ==
    /\ (Done("get_text") \/ Done("search"))
       => /\ result.raised => result.val = PyNone
          /\ wire = <<>> => result.raised
          /\ wire # <<>>
             => /\ FetchFailed(LastExchange.reply) => result.raised
                /\ ~result.raised => result = LastExchange.reply.body
    /\ (fn = "extract_verses" /\ wire # <<>>)
       => /\ ~FetchFailed(LastExchange.reply)
          /\ Ok(args[1]) = LastExchange.reply.body

\* search was answered with 503 twice and then with 404: HTTPError.
C21_Witness ==
    /\ Done("search")
    /\ LastExchange.reply.busy = 2 /\ LastExchange.reply.status = 404
    /\ LastExchange.reply.body = Ok(PyDict(<<>>))
    /\ LastExchange.attempts = 3
    /\ result = Raise("HTTPError")

\* C22: the payload search posts has the limit under `size`, equal to the
\* limit argument (10 by default), and no `limit`; it has query, type and
\* offset; it has field exactly when a non-empty field is given; and every
\* extra keyword argument is in it under its own name with the caller's
\* value.
C22_SearchPayload ==
    (Done("search") /\ wire # <<>>)
    => LET payload == LastExchange.request.json
           given == args[2]
           extras == {given.d[i][1] : i \in 1..Len(given.d)}
                     \ {"type", "field", "offset", "limit"}
       IN /\ HasKey(payload, "size")
          /\ GetKey(payload, "size") =
                (IF HasKey(given, "limit") THEN GetKey(given, "limit") ELSE PyInt(10))
          /\ ~HasKey(payload, "limit")
          /\ HasKey(payload, "query") /\ GetKey(payload, "query") = args[1]
          /\ HasKey(payload, "type") /\ HasKey(payload, "offset")
          /\ HasKey(payload, "field")
             <=> (HasKey(given, "field") /\ GetKey(given, "field").s # <<>>)
          /\ \A k \in extras :
                HasKey(payload, k) /\ GetKey(payload, k) = GetKey(given, k)

\* C29: every request of an endpoint method goes through the session of
\* the client, and so under its retry policy, with the default headers of
\* the client.
C29_EveryRequestThroughSession ==
    \A i \in 1..Len(wire) :
        /\ wire[i].request.session = client.session
        /\ wire[i].request.headers = client.headers
        /\ HasKey(wire[i].request.headers, "Accept")
        /\ HasKey(wire[i].request.headers, "User-Agent")

\* C30: the session of the async client is made on entering the block, is
\* open during the whole body, and is closed once the block is left,
\* whether the body ended or raised.
C30_SessionOpenExactlyInBlock ==
    /\ aio.pc = "start" => (aio.session = 0 /\ aio.sessions = <<>>)
    /\ aio.pc = "body" => (aio.session # 0 /\ aio.sessions[aio.session] = "open")
    /\ aio.pc = "exited"
       => /\ aio.session # 0
          /\ \A i \in 1..Len(aio.sessions) : aio.sessions[i] = "closed"

\* The second request of the body timed out; the block has been left.
C30_Witness ==
    /\ aio.pc = "exited"
    /\ aio.exc = "TimeoutError"
    /\ aio.results = <<"ok">>
    /\ aio.sessions = <<"closed">>

====
